---- MODULE Spec2Model ----
(***************************************************************************)
(* Strategy evaluation engine of the PAXG trading bot: the bracket-order   *)
(* backtest loop and its performance metrics (algos/base_algorithm.py),    *)
(* the RSI and the threshold-crossing signals (algos/rsi_algorithm.py),    *)
(* the algorithm factory (algos/__init__.py), the brute-force parameter    *)
(* optimizer (helpers/start_backtesting.py) and the double-confirm signal  *)
(* state machine in its batch (algos/rsi_1min_double_confirm_algorithm.py) *)
(* and streaming (paxg_panel.py) forms, the panel's backtest runner        *)
(* (helpers/backtest_helper.py) and its trading loop (paxg_panel.py).      *)
(*                                                                         *)
(* Specifications.  SpecBacktest runs backtest on any signal series,       *)
(* SpecPipeline runs it with the signals of an algorithm of algos/,        *)
(* SpecOptimize runs ParameterOptimizer.optimize, SpecLive feeds candles   *)
(* to the panel, SpecTester runs PanelBacktester.run_backtest and          *)
(* SpecTrading runs the loop of PAXGPanel.run with the bot started and     *)
(* stopped.                                                                *)
(*                                                                         *)
(* Units.  Prices are integer ticks.  The fractions take_profit, stop_loss *)
(* and commission are integers in per-mille (0.01 is 10, -0.005 is -5).    *)
(* A profit is an exact rational [num, den]; all arithmetic is exact, so   *)
(* the rounding of the program's binary floats is outside the model.       *)
(* Sequences are 1-based in TLA+; every index kept in the state is the     *)
(* program's 0-based index and At(s, k) reads s.iloc[k].                   *)
(***************************************************************************)
EXTENDS Integers, Sequences, FiniteSets, TLC

VARIABLES
    mode,           \* which program is running: "backtest", "optimize", "live",
                    \* "tester", "trading"
    \* ---- BacktestEngine.backtest
    prices,         \* data['price']
    signals,        \* algorithm.generate_signals(data)
    take_profit,    \* BacktestEngine.take_profit   (per-mille, > 0)
    stop_loss,      \* BacktestEngine.stop_loss     (per-mille, < 0)
    commission,     \* BacktestEngine.commission    (per-mille, >= 0)
    i,              \* the scan index of backtest
    current_trade,  \* the open trade, or None
    trades_list,    \* the closed trades, in the order they were appended
    pc,             \* position in backtest: "signals", "loop", "end", "done"
    algorithm,      \* self.algorithm: its name and parameters, or None for
                    \* an algorithm that is not one of this repository
    rsi_series,     \* the local rsi of algorithm.generate_signals
    bt_metrics,     \* the metrics backtest returns, None before it returns
    \* ---- ParameterOptimizer.optimize
    combinations,   \* get_parameter_combinations(): the parameter sets, in order
    min_trades,     \* settings.MIN_TRADES_THRESHOLD
    opt_i,          \* the index of the for loop of optimize
    results,        \* self.results
    best_result,    \* best_result
    raised,         \* history: the parameter sets whose evaluation raised
    opt_pc,         \* position in optimize: "start", "loop", "returned", or
                    \* "raised" when an exception left optimize
    algorithm_name, \* self.algorithm_name
    param_ranges,   \* settings.<NAME>_PARAMS: the ranges of take_profit and
                    \* stop_loss
    opt_error,      \* the exception that left optimize, or None
    created,        \* history: AlgorithmFactory has returned an instance
    \* ---- PAXGPanel, driven with one new candle per step
    candles,        \* df['price'] of get_recent_candles, oldest first
    lows,           \* df['low']
    rsi_period,     \* self.rsi_period
    last_rsi_values,\* self.last_rsi_values
    rsi_topped,     \* self.rsi_topped
    support_level,  \* self.support_level, or None
    rsi_value,      \* self.rsi_value, or None
    live_signal,    \* the current signal: -1 short, 1 cover, 0 none
    \* ---- PanelBacktester.run_backtest
    tester,         \* the PanelBacktester: results, trades_df, status, progress
    tester_pc,      \* position in run_backtest: "fetch", "run", "returned"
    tester_df,      \* the local df, or None
    tester_ret,     \* the value run_backtest returned, or None
    tester_old,     \* history: results and trades_df when run_backtest was called
    tester_calls,   \* history: the number of calls of run_backtest
    \* ---- PAXGPanel.run: update_data and execute_trading_cycle
    bot_running,    \* self.bot_running
    position_data,  \* self.position_data: size, position_value, unrealized_pnl
    last_buy_time,  \* self.last_buy_time, or None
    now,            \* datetime.now(), in minutes
    panel_pc,       \* position in run: "loop", or "cycle" between update_data
                    \* and execute_trading_cycle of one automatic update
    cycle_orders,   \* history: the orders of the last trading cycle, in order
    updates         \* history: the number of calls of update_data

backtestVars == <<prices, signals, take_profit, stop_loss, commission,
                  i, current_trade, trades_list, pc, algorithm, rsi_series,
                  bt_metrics>>
optVars == <<combinations, min_trades, opt_i, results, best_result, raised, opt_pc,
             algorithm_name, param_ranges, opt_error, created>>

testerVars == <<tester, tester_pc, tester_df, tester_ret, tester_old,
                tester_calls>>

tradingVars == <<bot_running, position_data, last_buy_time, now, panel_pc,
                 cycle_orders, updates>>

liveVars == <<candles, lows, rsi_period, last_rsi_values, rsi_topped,
              support_level, rsi_value, live_signal, testerVars, tradingVars>>

vars == <<mode, backtestVars, optVars, liveVars>>

-----------------------------------------------------------------------------
(* Bounds and input domains *)

MaxLen == 4                     \* longest price series of a backtest
MaxCombos == 3                  \* most parameter combinations of one optimization
MaxCandles == 12                \* most candles fed to the panel

PriceSet == {497, 500, 505}     \* ticks of 0.2: 99.4, 100, 101
SignalSet == {-1, 0, 1}
TakeProfits == {5, 10}
StopLosses == {-5}
Commissions == {0, 1}

\* What engine.backtest can report for one combination: its number of
\* trades and its total profit (percent).
TradeCounts == {3, 5, 6}
Profits == {-2, 3, 5}
\* settings.MIN_TRADES_THRESHOLD is read by optimize and is not set by
\* settings.py: a configured value, drawn from this set.
MinTradesThresholds == {3, 5}

\* The candle prices of the live series.
LivePrices == {100, 101}
\* The RSI periods.  The smoothing is computed exactly, on integers scaled by
\* a power of the denominator of alpha = 2/(period+1), which has to stay
\* within TLC's 32-bit integers over MaxCandles samples.
PeriodSet == {1, 3}

None == [none |-> TRUE]         \* Python's None
NoTrade == [type |-> "none"]    \* the value of current_trade when it is None

-----------------------------------------------------------------------------
(* Helpers *)

At(s, k) == s[k + 1]            \* s.iloc[k]
Last(s) == s[Len(s)]            \* s.iloc[-1]

Rat(n, d) == [num |-> n, den |-> d]                 \* n / d, d > 0
RatEq(a, b) == a.num * b.den = b.num * a.den
RatLess(a, b) == a.num * b.den < b.num * a.den

\* data.index[k]: timestamps increase strictly with the position, so a
\* timestamp is identified with the position of its sample.
index(k) == k

-----------------------------------------------------------------------------
(* BacktestEngine *)

\* The two bracket prices, each multiplied by 1000.
calculate_exit_price(entry_price, is_long) ==
    IF is_long
    THEN <<entry_price * (1000 + take_profit), entry_price * (1000 + stop_loss)>>
    ELSE <<entry_price * (1000 - take_profit), entry_price * (1000 - stop_loss)>>

\* Mutant: the commission is charged once.
TakeProfitProfit_OneCommission(is_long) == Rat(take_profit - commission, 1)

\* The profit of a take-profit exit, per-mille.
TakeProfitProfit(is_long) == Rat(take_profit - commission * 2, 1)

\* The profit of a stop-loss exit, per-mille: the short side negates stop_loss.
StopLossProfit(is_long) ==
    IF is_long THEN Rat(stop_loss - commission * 2, 1)
               ELSE Rat(-stop_loss - commission * 2, 1)

\* Mutant: the return of a short is not negated.
MarketCloseProfit_NoNegation(entry_price, final_price, is_long) ==
    Rat((final_price - entry_price) * 1000 - commission * 2 * entry_price, entry_price)

\* The profit of a close at final_price, per-mille.
MarketCloseProfit(entry_price, final_price, is_long) ==
    IF is_long
    THEN Rat((final_price - entry_price) * 1000 - commission * 2 * entry_price, entry_price)
    ELSE Rat(-(final_price - entry_price) * 1000 - commission * 2 * entry_price, entry_price)

\* The exit reason the body of the for loop of simulate_trade returns with at
\* sample k, or "none" when it does not return there.
BracketAt(ps, entry_idx, is_long, k) ==
    LET current_price == At(ps, k)
        ex == calculate_exit_price(At(ps, entry_idx), is_long)
        tp_price == ex[1]
        sl_price == ex[2]
    IN  IF is_long
        THEN IF current_price * 1000 >= tp_price THEN "take_profit"
             ELSE IF current_price * 1000 <= sl_price THEN "stop_loss"
             ELSE "none"
        ELSE IF current_price * 1000 <= tp_price THEN "take_profit"
             ELSE IF current_price * 1000 >= sl_price THEN "stop_loss"
             ELSE "none"

RECURSIVE SimulateFrom(_, _, _, _)
SimulateFrom(ps, entry_idx, is_long, k) ==
    IF k >= Len(ps)
    THEN <<Len(ps) - 1,
           MarketCloseProfit(At(ps, entry_idx), Last(ps), is_long),
           "market_close">>
    ELSE LET r == BracketAt(ps, entry_idx, is_long, k)
         IN  IF r = "take_profit" THEN <<k, TakeProfitProfit(is_long), r>>
             ELSE IF r = "stop_loss" THEN <<k, StopLossProfit(is_long), r>>
             ELSE SimulateFrom(ps, entry_idx, is_long, k + 1)

\* Mutant: a signal of the opposite side closes the trade at its sample.
RECURSIVE SimulateFrom_CloseOnSignal(_, _, _, _)
SimulateFrom_CloseOnSignal(ps, entry_idx, is_long, k) ==
    IF k >= Len(ps)
    THEN <<Len(ps) - 1,
           MarketCloseProfit(At(ps, entry_idx), Last(ps), is_long),
           "market_close">>
    ELSE LET r == BracketAt(ps, entry_idx, is_long, k)
         IN  IF r = "take_profit" THEN <<k, TakeProfitProfit(is_long), r>>
             ELSE IF r = "stop_loss" THEN <<k, StopLossProfit(is_long), r>>
             ELSE IF At(signals, k) = (IF is_long THEN -1 ELSE 1)
             THEN <<k, MarketCloseProfit(At(ps, entry_idx), At(ps, k), is_long),
                    "signal">>
             ELSE SimulateFrom_CloseOnSignal(ps, entry_idx, is_long, k + 1)
simulate_trade_CloseOnSignal(ps, entry_idx, is_long) ==
    SimulateFrom_CloseOnSignal(ps, entry_idx, is_long, entry_idx + 1)

\* Mutant: the scan for an exit skips the first sample after the entry.
simulate_trade_SkipFirst(ps, entry_idx, is_long) ==
    SimulateFrom(ps, entry_idx, is_long, entry_idx + 2)

\* <<exit_index, profit, exit_reason>>
simulate_trade(ps, entry_idx, is_long) ==
    SimulateFrom(ps, entry_idx, is_long, entry_idx + 1)

\* Mutant: the scan resumes at the exit sample itself.
NextScanIndex_AtExit(exit_idx) == exit_idx

\* Mutant: the scan resumes where it was.
NextScanIndex_SameIndex(exit_idx) == i

\* Mutant: the scan resumes two samples after the exit.
NextScanIndex_SkipOne(exit_idx) == exit_idx + 2

\* "Move to the next candle after the exit"
NextScanIndex(exit_idx) == exit_idx + 1

\* profit * 100: a per-mille profit as a percentage.
ProfitPct(profit) == Rat(profit.num, profit.den * 10)

OpenTrade(k, side) ==
    [entry_time |-> index(k), entry_price |-> At(prices, k),
     type |-> side, entry_idx |-> k]

\* current_trade.update({...})
CompleteTrade(t, exit_idx, profit, exit_reason) ==
    [entry_time |-> t.entry_time, entry_price |-> t.entry_price,
     type |-> t.type, entry_idx |-> t.entry_idx,
     exit_time |-> index(exit_idx), exit_price |-> At(prices, exit_idx),
     profit_pct |-> ProfitPct(profit), exit_reason |-> exit_reason]

\* ---- calculate_performance_metrics

PosInf == [inf |-> "+"]         \* float('inf')
Zero == Rat(0, 1)               \* the number 0 of a metrics field
Abs(x) == IF x < 0 THEN -x ELSE x

RECURSIVE Gcd(_, _)
Gcd(a, b) == IF b = 0 THEN a ELSE Gcd(b, a % b)
Lcm(a, b) == (a \div Gcd(a, b)) * b

\* The column profit_pct as integers over one denominator ProfitDen(ts).
RECURSIVE ProfitDen(_)
ProfitDen(ts) ==
    IF ts = <<>> THEN 1 ELSE Lcm(Head(ts).profit_pct.den, ProfitDen(Tail(ts)))
ProfitNums(ts) ==
    [k \in 1..Len(ts) |->
        ts[k].profit_pct.num * (ProfitDen(ts) \div ts[k].profit_pct.den)]

\* The sum of the entries of ns whose position is in S.
RECURSIVE SumFrom(_, _, _)
SumFrom(ns, S, k) ==
    IF k > Len(ns) THEN 0
    ELSE (IF k \in S THEN ns[k] ELSE 0) + SumFrom(ns, S, k + 1)
SumOver(ns, S) == SumFrom(ns, S, 1)

MaxOf(S) == CHOOSE x \in S : \A y \in S : x >= y

\* Mutant: the running maximum starts at a baseline of zero.
max_drawdown_ZeroBaseline(ns) ==
    LET cumulative_profits == [k \in 1..Len(ns) |-> SumOver(ns, 1..k)]
        cummax == [k \in 1..Len(ns) |->
                      MaxOf({0} \cup {cumulative_profits[j] : j \in 1..k})]
    IN  MaxOf({cummax[k] - cumulative_profits[k] : k \in 1..Len(ns)})

\* (cumulative_profits.cummax() - cumulative_profits).max()
max_drawdown(ns) ==
    LET cumulative_profits == [k \in 1..Len(ns) |-> SumOver(ns, 1..k)]
        cummax == [k \in 1..Len(ns) |->
                      MaxOf({cumulative_profits[j] : j \in 1..k})]
    IN  MaxOf({cummax[k] - cumulative_profits[k] : k \in 1..Len(ns)})

\* Mutant: the sums of the losing and of the winning trades change places.
profit_factor_Inverted(ns) ==
    LET winning_trades == {k \in 1..Len(ns) : ns[k] > 0}
        losing_trades == {k \in 1..Len(ns) : ns[k] <= 0}
    IN  IF losing_trades # {} /\ SumOver(ns, losing_trades) # 0
        THEN [num |-> Abs(SumOver(ns, losing_trades)),
              den |-> Abs(SumOver(ns, winning_trades))]
        ELSE PosInf

\* profit_factor; a quotient is the pair of its terms.
profit_factor(ns) ==
    LET winning_trades == {k \in 1..Len(ns) : ns[k] > 0}
        losing_trades == {k \in 1..Len(ns) : ns[k] <= 0}
    IN  IF losing_trades # {} /\ SumOver(ns, losing_trades) # 0
        THEN Rat(Abs(SumOver(ns, winning_trades)),
                 Abs(SumOver(ns, losing_trades)))
        ELSE PosInf

\* Mutant: the profit factor of no trades is infinite.
EmptyMetrics_InfFactor ==
    [total_trades |-> 0, win_rate |-> Zero, avg_profit |-> Zero,
     total_profit |-> Zero, max_drawdown |-> Zero, profit_factor |-> PosInf,
     long_trades |-> 0, short_trades |-> 0, avg_trade_duration |-> Zero,
     take_profit_exits |-> 0, stop_loss_exits |-> 0, market_close_exits |-> 0]

\* The record returned for len(trades_df) == 0.
EmptyMetrics ==
    [total_trades |-> 0, win_rate |-> Zero, avg_profit |-> Zero,
     total_profit |-> Zero, max_drawdown |-> Zero, profit_factor |-> Zero,
     long_trades |-> 0, short_trades |-> 0, avg_trade_duration |-> Zero,
     take_profit_exits |-> 0, stop_loss_exits |-> 0, market_close_exits |-> 0]

Count(ts, P(_)) == Cardinality({k \in 1..Len(ts) : P(ts[k])})

\* Mutant: a trade of profit zero counts as a winning trade.
win_rate_NonNegative(ts) ==
    LET winning(t) == ~RatLess(t.profit_pct, Zero)
    IN  Rat(Count(ts, winning) * 100, Len(ts))

\* len(winning_trades) / len(trades_df) * 100
win_rate(ts) ==
    LET winning(t) == RatLess(Zero, t.profit_pct)
    IN  Rat(Count(ts, winning) * 100, Len(ts))

calculate_performance_metrics(ts) ==
    IF Len(ts) = 0 THEN EmptyMetrics
    ELSE LET ns == ProfitNums(ts)
             den == ProfitDen(ts)
             is_long(t) == t.type = "long"
             is_short(t) == t.type = "short"
             tp(t) == t.exit_reason = "take_profit"
             sl(t) == t.exit_reason = "stop_loss"
             mc(t) == t.exit_reason = "market_close"
             durations == [k \in 1..Len(ts) |-> ts[k].exit_time - ts[k].entry_time]
         IN  [total_trades |-> Len(ts),
              win_rate |-> win_rate(ts),
              avg_profit |-> Rat(SumOver(ns, 1..Len(ts)), den * Len(ts)),
              total_profit |-> Rat(SumOver(ns, 1..Len(ts)), den),
              max_drawdown |-> Rat(max_drawdown(ns), den),
              profit_factor |-> profit_factor(ns),
              long_trades |-> Count(ts, is_long),
              short_trades |-> Count(ts, is_short),
              avg_trade_duration |-> Rat(SumOver(durations, 1..Len(ts)), Len(ts)),
              take_profit_exits |-> Count(ts, tp),
              stop_loss_exits |-> Count(ts, sl),
              market_close_exits |-> Count(ts, mc)]

\* One iteration of the while loop with no trade open.
ScanStep ==
    /\ mode = "backtest" /\ pc = "loop"
    /\ i < Len(prices)
    /\ current_trade = NoTrade
    /\ current_trade' = IF At(signals, i) = 1 THEN OpenTrade(i, "long")
                        ELSE IF At(signals, i) = -1 THEN OpenTrade(i, "short")
                        ELSE NoTrade
    /\ i' = i + 1
    /\ UNCHANGED <<mode, algorithm, rsi_series, bt_metrics, prices, signals,
                   take_profit, stop_loss, commission,
                   trades_list, pc>>
    /\ UNCHANGED <<optVars, liveVars>>

\* One iteration of the while loop with a trade open.
CloseStep ==
    /\ mode = "backtest" /\ pc = "loop"
    /\ i < Len(prices)
    /\ current_trade # NoTrade
    /\ LET is_long == current_trade.type = "long"
           r == simulate_trade(prices, current_trade.entry_idx, is_long)
       IN  /\ trades_list' = Append(trades_list,
                                    CompleteTrade(current_trade, r[1], r[2], r[3]))
           /\ i' = NextScanIndex(r[1])
    /\ current_trade' = NoTrade
    /\ UNCHANGED <<mode, algorithm, rsi_series, bt_metrics, prices, signals,
                   take_profit, stop_loss, commission, pc>>
    /\ UNCHANGED <<optVars, liveVars>>

\* The while loop ends.
LoopExit ==
    /\ mode = "backtest" /\ pc = "loop"
    /\ i >= Len(prices)
    /\ pc' = "end"
    /\ UNCHANGED <<mode, algorithm, rsi_series, bt_metrics, prices, signals,
                   take_profit, stop_loss, commission,
                   i, current_trade, trades_list>>
    /\ UNCHANGED <<optVars, liveVars>>

\* "Handle any open trade at the end", then calculate_performance_metrics.
ForceClose ==
    /\ mode = "backtest" /\ pc = "end"
    /\ current_trade # NoTrade
    /\ LET is_long == current_trade.type = "long"
           final_profit == MarketCloseProfit(current_trade.entry_price,
                                             Last(prices), is_long)
       IN  trades_list' = Append(trades_list,
                CompleteTrade(current_trade, Len(prices) - 1, final_profit,
                              "market_close"))
    /\ bt_metrics' = calculate_performance_metrics(trades_list')
    /\ pc' = "done"
    /\ UNCHANGED <<mode, algorithm, rsi_series, prices, signals,
                   take_profit, stop_loss, commission,
                   i, current_trade>>
    /\ UNCHANGED <<optVars, liveVars>>

\* backtest returns with no trade open.
Return ==
    /\ mode = "backtest" /\ pc = "end"
    /\ current_trade = NoTrade
    /\ bt_metrics' = calculate_performance_metrics(trades_list)
    /\ pc' = "done"
    /\ UNCHANGED <<mode, algorithm, rsi_series, prices, signals,
                   take_profit, stop_loss, commission,
                   i, current_trade, trades_list>>
    /\ UNCHANGED <<optVars, liveVars>>

SeqsUpTo(S, n) == UNION {[1..m -> S] : m \in 0..n}

\* The values the optimizer's variables keep while another program runs.
IdleOptimize ==
    /\ combinations = <<>> /\ min_trades = 0 /\ opt_i = 0 /\ results = <<>>
    /\ best_result = None /\ raised = {} /\ opt_pc = "idle"
    /\ algorithm_name = "" /\ param_ranges = None /\ opt_error = None
    /\ created = FALSE

\* The values the panel's variables keep while another program runs.
\* PanelBacktester.__init__
NewTester ==
    [results |-> None, trades_df |-> None, status |-> "Ready", progress |-> 0]

\* The values the panel backtester's variables keep while another program
\* runs.
IdleTester ==
    /\ tester = NewTester /\ tester_pc = "idle" /\ tester_df = None
    /\ tester_ret = None /\ tester_old = None /\ tester_calls = 0

\* self.position_data of PAXGPanel.__init__, and of update_data when the
\* exchange reports no position.
NoPosition == [size |-> 0, position_value |-> 0, unrealized_pnl |-> 0]

\* The values the trading loop's variables keep while another program runs.
IdleTrading ==
    /\ bot_running = FALSE /\ position_data = NoPosition
    /\ last_buy_time = None /\ now = 0 /\ panel_pc = "idle"
    /\ cycle_orders = <<>> /\ updates = 0

IdleLive ==
    /\ candles = <<>> /\ lows = <<>> /\ rsi_period = 0
    /\ last_rsi_values = <<>> /\ rsi_topped = FALSE
    /\ support_level = None /\ rsi_value = None /\ live_signal = 0
    /\ IdleTester
    /\ IdleTrading

InitBacktest ==
    /\ mode = "backtest"
    /\ IdleOptimize
    /\ IdleLive
    /\ prices \in SeqsUpTo(PriceSet, MaxLen)
    /\ signals \in [1..Len(prices) -> SignalSet]
    /\ take_profit \in TakeProfits
    /\ stop_loss \in StopLosses
    /\ commission \in Commissions
    /\ i = 1
    /\ current_trade = NoTrade
    /\ trades_list = <<>>
    /\ pc = "loop"
    /\ algorithm = None
    /\ rsi_series = <<>>
    /\ bt_metrics = None

NextBacktest == ScanStep \/ CloseStep \/ LoopExit \/ ForceClose \/ Return

SpecBacktest == InitBacktest /\ [][NextBacktest]_vars

-----------------------------------------------------------------------------
(* ParameterOptimizer.optimize *)

\* The values the backtest's variables keep while another program runs.
IdleBacktest ==
    /\ prices = <<>> /\ signals = <<>>
    /\ take_profit = 0 /\ stop_loss = 0 /\ commission = 0
    /\ i = 0 /\ current_trade = NoTrade /\ trades_list = <<>> /\ pc = "idle"
    /\ algorithm = None /\ rsi_series = <<>> /\ bt_metrics = None

NegInf == [inf |-> "-"]         \* float('-inf')
Finite(x) == [value |-> x]      \* a finite float

InitialBest ==
    [total_profit |-> NegInf, parameters |-> None, metrics |-> None,
     trades_df |-> None]

\* a > b for a finite a and b finite or -inf
GreaterThan(a, b) == IF b = NegInf THEN TRUE ELSE a.value > b.value

\* ---- AlgorithmFactory.create_algorithm and get_parameter_combinations

Range(s) == {s[k] : k \in 1..Len(s)}

\* list(algorithms.keys())
FactoryAlgorithms == <<"RSI", "RSI_1MIN_DOUBLE_CONFIRM">>

\* Mutant: get_parameter_combinations accepts the names of the factory.
OptimizerAlgorithms_Factory == {"RSI", "RSI_1MIN_DOUBLE_CONFIRM"}

\* The names get_parameter_combinations has a settings entry for.
OptimizerAlgorithms == {"RSI", "MACD", "SUPPORT_VOLUME", "VOL24", "SMA"}

\* The identifiers an optimizer is constructed with.
StrategyNames ==
    {"RSI", "RSI_1MIN_DOUBLE_CONFIRM", "MACD", "SUPPORT_VOLUME", "VOL24", "SMA",
     "MOVING_STARS"}

\* ValueError(message): the message names the identifier and, when it
\* enumerates them, the available identifiers.
ValueError(name, available) ==
    [type |-> "ValueError", name |-> name, available |-> available]

\* AlgorithmFactory.create_algorithm(name): the exception it raises, or
\* None when it returns an instance.
create_algorithm(name) ==
    IF name \notin Range(FactoryAlgorithms)
    THEN ValueError(name, FactoryAlgorithms)
    ELSE None

\* RSIAlgorithm.get_parameter_ranges, every list cut to its first value.
get_parameter_ranges ==
    <<[key |-> "period", values |-> <<10>>],
      [key |-> "oversold_threshold", values |-> <<20>>],
      [key |-> "overbought_threshold", values |-> <<65>>]>>

\* itertools.product(*values): the tuples in order, the last list varying
\* fastest.
RECURSIVE Product(_)
Product(values) ==
    IF values = <<>> THEN << <<>> >>
    ELSE LET rest == Product(Tail(values))
             first == Head(values)
         IN  [k \in 1..(Len(first) * Len(rest)) |->
                 <<first[((k - 1) \div Len(rest)) + 1]>>
                 \o rest[((k - 1) % Len(rest)) + 1]]

\* The combinations of get_parameter_combinations once the algorithm exists.
\* Its filter applies to MACD and SMA only, names the factory has rejected
\* before.
ParameterCombinations(ranges) ==
    LET all_ranges == get_parameter_ranges
                      \o <<[key |-> "take_profit", values |-> ranges.take_profit],
                           [key |-> "stop_loss", values |-> ranges.stop_loss]>>
        combos == Product([k \in 1..Len(all_ranges) |-> all_ranges[k].values])
    IN  [k \in 1..Len(combos) |->
            [period |-> combos[k][1], oversold_threshold |-> combos[k][2],
             overbought_threshold |-> combos[k][3],
             take_profit |-> combos[k][4], stop_loss |-> combos[k][5]]]

\* combinations = self.get_parameter_combinations(), the first statement of
\* optimize; an exception of it leaves optimize.
GetParameterCombinations ==
    /\ mode = "optimize" /\ opt_pc = "start"
    /\ IF algorithm_name \notin OptimizerAlgorithms
       THEN /\ opt_error' = ValueError(algorithm_name, <<>>)
            /\ opt_pc' = "raised"
            /\ UNCHANGED <<combinations, created>>
       ELSE IF create_algorithm(algorithm_name) # None
       THEN /\ opt_error' = create_algorithm(algorithm_name)
            /\ opt_pc' = "raised"
            /\ UNCHANGED <<combinations, created>>
       ELSE /\ combinations' = ParameterCombinations(param_ranges)
            /\ created' = TRUE
            /\ opt_pc' = "loop"
            /\ UNCHANGED opt_error
    /\ UNCHANGED <<mode, min_trades, opt_i, results, best_result, raised,
                   algorithm_name, param_ranges>>
    /\ UNCHANGED <<backtestVars, liveVars>>

\* Mutant: the minimum number of trades is not required.
IsBetter_NoThreshold(metrics, best) ==
    GreaterThan(metrics.total_profit, best.total_profit)

\* Mutant: the minimum number of trades must be exceeded.
IsBetter_StrictThreshold(metrics, best) ==
    /\ GreaterThan(metrics.total_profit, best.total_profit)
    /\ metrics.total_trades > min_trades

\* "Check if this is the best total profit so far"
IsBetter(metrics, best) ==
    /\ GreaterThan(metrics.total_profit, best.total_profit)
    /\ metrics.total_trades >= min_trades

\* Mutant: the exception handler leaves the loop.
IndexAfterFailure_Break(k) == Len(combinations)

\* except ...: continue
IndexAfterFailure(k) == k + 1

\* One iteration of the for loop in which nothing raises.  engine.backtest
\* is a function of the data and the parameter set; the model lets it
\* report any metrics, and trades_df is named by its parameter set.
EvaluateOk ==
    /\ mode = "optimize" /\ opt_pc = "loop"
    /\ opt_i < Len(combinations)
    /\ \E n \in TradeCounts, p \in Profits :
         LET params == At(combinations, opt_i)
             metrics == [total_trades |-> n, total_profit |-> Finite(p)]
             result == [params |-> params, total_trades |-> n,
                        total_profit |-> Finite(p)]
         IN  /\ results' = Append(results, result)
             /\ best_result' =
                  IF IsBetter(metrics, best_result)
                  THEN [total_profit |-> metrics.total_profit,
                        parameters |-> params, metrics |-> metrics,
                        trades_df |-> [of |-> params]]
                  ELSE best_result
    /\ opt_i' = opt_i + 1
    /\ UNCHANGED <<mode, combinations, min_trades, raised, opt_pc,
                   algorithm_name, param_ranges, opt_error, created>>
    /\ UNCHANGED <<backtestVars, liveVars>>

\* One iteration of the for loop in which the try block raises: every
\* statement that can raise precedes self.results.append.
EvaluateRaises ==
    /\ mode = "optimize" /\ opt_pc = "loop"
    /\ opt_i < Len(combinations)
    /\ raised' = raised \cup {At(combinations, opt_i)}
    /\ opt_i' = IndexAfterFailure(opt_i)
    /\ UNCHANGED <<mode, combinations, min_trades, results, best_result, opt_pc,
                   algorithm_name, param_ranges, opt_error, created>>
    /\ UNCHANGED <<backtestVars, liveVars>>

\* The for loop is over: optimize returns best_result.
OptimizeReturn ==
    /\ mode = "optimize" /\ opt_pc = "loop"
    /\ opt_i >= Len(combinations)
    /\ opt_pc' = "returned"
    /\ UNCHANGED <<mode, combinations, min_trades, opt_i, results, best_result, raised,
                   algorithm_name, param_ranges, opt_error, created>>
    /\ UNCHANGED <<backtestVars, liveVars>>

\* The ranges of settings: up to MaxCombos values of take_profit (per-mille)
\* and at most one of stop_loss.
TakeProfitRanges == {[k \in 1..n |-> 5 * k] : n \in 0..MaxCombos}
StopLossRanges == {<<>>, <<-5>>}

InitOptimize ==
    /\ mode = "optimize"
    /\ IdleBacktest
    /\ IdleLive
    /\ algorithm_name \in StrategyNames
    /\ param_ranges \in [take_profit : TakeProfitRanges, stop_loss : StopLossRanges]
    /\ opt_error = None
    /\ created = FALSE
    /\ combinations = <<>>
    /\ min_trades \in MinTradesThresholds
    /\ opt_i = 0
    /\ results = <<>>
    /\ best_result = InitialBest
    /\ raised = {}
    /\ opt_pc = "start"

NextOptimize ==
    GetParameterCombinations \/ EvaluateOk \/ EvaluateRaises \/ OptimizeReturn

SpecOptimize == InitOptimize /\ [][NextOptimize]_vars

-----------------------------------------------------------------------------
(* calculate_rsi (the same code in RSI1MinDoubleConfirmAlgorithm and in     *)
(* PAXGPanel)                                                               *)

BOT_RSI_OVERSOLD == 20
BOT_RSI_OVERBOUGHT == 65

RECURSIVE Pow(_, _)
Pow(b, e) == IF e = 0 THEN 1 ELSE b * Pow(b, e - 1)

\* alpha = 2 / (span + 1) in lowest terms.
AlphaNum(span) == IF (span + 1) % 2 = 0 THEN 1 ELSE 2
AlphaDen(span) == IF (span + 1) % 2 = 0 THEN (span + 1) \div 2 ELSE span + 1

\* delta = prices.diff(); gain = delta.where(delta > 0, 0): delta is NaN at
\* sample 0, where the condition is false and the value 0.
gain(ps, k) ==
    IF k = 0 THEN 0
    ELSE IF At(ps, k) - At(ps, k - 1) > 0 THEN At(ps, k) - At(ps, k - 1) ELSE 0

\* loss = -delta.where(delta < 0, 0)
loss(ps, k) ==
    IF k = 0 THEN 0
    ELSE IF At(ps, k) - At(ps, k - 1) < 0 THEN -(At(ps, k) - At(ps, k - 1)) ELSE 0

\* x.ewm(span, adjust=False).mean() at sample k, multiplied by
\* AlphaDen(span)^k: y[0] = x[0], y[k] = (1 - alpha) y[k-1] + alpha x[k].
RECURSIVE ewm_gain(_, _, _)
ewm_gain(ps, span, k) ==
    IF k = 0 THEN gain(ps, 0)
    ELSE (AlphaDen(span) - AlphaNum(span)) * ewm_gain(ps, span, k - 1)
         + AlphaNum(span) * gain(ps, k) * Pow(AlphaDen(span), k - 1)

RECURSIVE ewm_loss(_, _, _)
ewm_loss(ps, span, k) ==
    IF k = 0 THEN loss(ps, 0)
    ELSE (AlphaDen(span) - AlphaNum(span)) * ewm_loss(ps, span, k - 1)
         + AlphaNum(span) * loss(ps, k) * Pow(AlphaDen(span), k - 1)

\* An RSI value is kept as the pair of the smoothed gain g and loss l, on
\* their common scale: rs = g / l and rsi = 100 - 100 / (1 + rs), which is
\* 100 g / (g + l), 100 when l = 0 < g, and NaN when g = l = 0.
IsNaN(r) == r.g + r.l = 0

\* Comparisons of floats: every comparison with NaN is false.
RsiGe(r, n) == ~IsNaN(r) /\ 100 * r.g >= n * (r.g + r.l)
RsiGt(r, n) == ~IsNaN(r) /\ 100 * r.g > n * (r.g + r.l)
RsiLe(r, n) == ~IsNaN(r) /\ 100 * r.g <= n * (r.g + r.l)
RsiLt(r, n) == ~IsNaN(r) /\ 100 * r.g < n * (r.g + r.l)
Greater(a, b) ==
    ~IsNaN(a) /\ ~IsNaN(b) /\ a.g * (b.g + b.l) > b.g * (a.g + a.l)

\* rsi.iloc[k]
rsi_at(ps, span, k) ==
    [g |-> ewm_gain(ps, span, k), l |-> ewm_loss(ps, span, k)]

NaN == [nan |-> TRUE]           \* float('nan')

\* Mutant: 0 / 0 is inf.
rs_ZeroByZeroInf(r) == IF r.l = 0 THEN PosInf ELSE Rat(r.g, r.l)

\* Mutant: a quotient by zero is NaN.
rs_ZeroDivisionNaN(r) == IF r.l = 0 THEN NaN ELSE Rat(r.g, r.l)

\* rs = avg_gain / avg_loss, a division of floats: x / 0 is inf for x > 0
\* and 0 / 0 is NaN.
rs(r) ==
    IF r.l = 0 THEN (IF r.g = 0 THEN NaN ELSE PosInf) ELSE Rat(r.g, r.l)

\* rsi = 100 - (100 / (1 + rs)): 100 / inf is 0.
rsi_of(r) ==
    IF rs(r) = NaN THEN NaN
    ELSE IF rs(r) = PosInf THEN Rat(100, 1)
    ELSE Rat(100 * (rs(r).num + rs(r).den) - 100 * rs(r).den,
             rs(r).num + rs(r).den)

\* The RSI series of a price series.
calculate_rsi(ps, span) == [k \in 1..Len(ps) |-> rsi_at(ps, span, k - 1)]

-----------------------------------------------------------------------------
(* RSI1MinDoubleConfirmAlgorithm.generate_signals (batch) *)

Max2(a, b) == IF a >= b THEN a ELSE b
MinOf(S) == CHOOSE x \in S : \A y \in S : x <= y

\* rsi_topped.iloc[k] after the loop "Detect RSI tops".  Series.max() skips
\* NaN, so recent_high >= overbought says that some value of the window is.
batch_rsi_topped(rsi, overbought, k) ==
    /\ k >= 2
    /\ \/ \E j \in Max2(0, k - 10)..(k - 1) : RsiGe(At(rsi, j), overbought)
       \/ /\ Greater(At(rsi, k - 1), At(rsi, k - 2))
          /\ Greater(At(rsi, k - 1), At(rsi, k))
          /\ RsiGt(At(rsi, k - 1), 60)

\* A float that may be None or NaN is kept as [value |-> x].
Float(x) == [value |-> x]

\* support_levels.iloc[k], None standing for NaN.
batch_support_level(ps, k) ==
    IF k >= 10 THEN Float(MinOf({At(ps, j) : j \in (k - 10)..(k - 1)})) ELSE None

\* The condition of "Generate SHORT signals" at sample k.
batch_short(ps, rsi, overbought, k) ==
    /\ k >= 11
    /\ batch_rsi_topped(rsi, overbought, k)
    /\ RsiLt(At(rsi, k), 50)
    /\ RsiGe(At(rsi, k - 1), 50)
    /\ At(ps, k) < batch_support_level(ps, k).value

\* cover_condition at sample k: rsi.shift(1) is NaN at sample 0.
batch_cover(rsi, oversold, k) ==
    /\ RsiLe(At(rsi, k), oversold)
    /\ k >= 1
    /\ RsiGt(At(rsi, k - 1), oversold)

\* Mutant: the short signals are written last and replace a cover signal.
generate_signals_ShortLast(ps, span, oversold, overbought) ==
    LET rsi == calculate_rsi(ps, span)
    IN  [k \in 1..Len(ps) |->
            IF batch_short(ps, rsi, overbought, k - 1) THEN -1
            ELSE IF batch_cover(rsi, oversold, k - 1) THEN 1
            ELSE 0]

\* The cover signals are written last and replace a short signal.
generate_signals(ps, span, oversold, overbought) ==
    LET rsi == calculate_rsi(ps, span)
    IN  [k \in 1..Len(ps) |->
            IF batch_cover(rsi, oversold, k - 1) THEN 1
            ELSE IF batch_short(ps, rsi, overbought, k - 1) THEN -1
            ELSE 0]

-----------------------------------------------------------------------------
(* RSIAlgorithm.generate_signals *)

\* Mutant: the RSI is above the threshold, whatever it was one sample before.
buy_condition_NoCross(rsi, oversold, k) == RsiGt(At(rsi, k), oversold)

\* buy_condition at sample k: rsi.shift(1) is NaN at sample 0.
buy_condition(rsi, oversold, k) ==
    /\ RsiGt(At(rsi, k), oversold)
    /\ k >= 1
    /\ RsiLe(At(rsi, k - 1), oversold)

\* Mutant: a sell wherever the RSI is at or above the threshold after a
\* sample where it was.
sell_condition_Above(rsi, overbought, k) ==
    /\ RsiGe(At(rsi, k), overbought)
    /\ k >= 1
    /\ RsiGe(At(rsi, k - 1), overbought)

\* sell_condition at sample k
sell_condition(rsi, overbought, k) ==
    /\ RsiLt(At(rsi, k), overbought)
    /\ k >= 1
    /\ RsiGe(At(rsi, k - 1), overbought)

\* signals[buy_condition] = 1, then signals[sell_condition] = -1
rsi_generate_signals(ps, span, oversold, overbought) ==
    LET rsi == calculate_rsi(ps, span)
    IN  [k \in 1..Len(ps) |->
            IF sell_condition(rsi, overbought, k - 1) THEN -1
            ELSE IF buy_condition(rsi, oversold, k - 1) THEN 1
            ELSE 0]

-----------------------------------------------------------------------------
(* BacktestEngine.backtest with an algorithm of algos/: generate_signals,  *)
(* then the loop over the samples                                          *)

MaxSeries == 6                  \* longest price series given to an algorithm
SeriesPrices == {100, 101, 103}

\* The steadily rising series: from 100 upwards by a step of 1 or 2 at every
\* sample.
RisingSeries ==
    UNION {{[k \in 1..m |-> 100 + SumOver(steps, 1..(k - 1))] :
              steps \in [1..(m - 1) -> {1, 2}]} : m \in 1..MaxSeries}

\* The defaults of RSIAlgorithm.__init__ and of
\* RSI1MinDoubleConfirmAlgorithm.__init__.
DefaultOversold == 30
DefaultOverbought == 70
\* The defaults of BacktestEngine.__init__, per-mille.
DefaultTakeProfit == 10
DefaultStopLoss == -5
DefaultCommission == 1

\* The algorithms AlgorithmFactory can create, with periods whose smoothing
\* stays within 32-bit integers over MaxSeries samples.
Algorithms ==
    {[name |-> n, period |-> p, oversold_threshold |-> DefaultOversold,
      overbought_threshold |-> DefaultOverbought] :
        n \in {"RSI", "RSI_1MIN_DOUBLE_CONFIRM"}, p \in {1, 3, 5}}

\* signals = self.algorithm.generate_signals(data); trades_list = [];
\* current_trade = None; i = 1
GenerateSignals ==
    /\ mode = "backtest" /\ pc = "signals"
    /\ rsi_series' = calculate_rsi(prices, algorithm.period)
    /\ signals' =
         IF algorithm.name = "RSI"
         THEN rsi_generate_signals(prices, algorithm.period,
                                   algorithm.oversold_threshold,
                                   algorithm.overbought_threshold)
         ELSE generate_signals(prices, algorithm.period,
                               algorithm.oversold_threshold,
                               algorithm.overbought_threshold)
    /\ i' = 1
    /\ current_trade' = NoTrade
    /\ trades_list' = <<>>
    /\ pc' = "loop"
    /\ UNCHANGED <<mode, algorithm, bt_metrics, prices, take_profit, stop_loss,
                   commission>>
    /\ UNCHANGED <<optVars, liveVars>>

InitPipeline ==
    /\ mode = "backtest"
    /\ IdleOptimize
    /\ IdleLive
    /\ prices \in SeqsUpTo(SeriesPrices, MaxSeries) \cup RisingSeries
    /\ algorithm \in Algorithms
    /\ take_profit = DefaultTakeProfit
    /\ stop_loss = DefaultStopLoss
    /\ commission = DefaultCommission
    /\ signals = <<>>
    /\ rsi_series = <<>>
    /\ bt_metrics = None
    /\ i = 0
    /\ current_trade = NoTrade
    /\ trades_list = <<>>
    /\ pc = "signals"

NextPipeline == GenerateSignals \/ NextBacktest

SpecPipeline == InitPipeline /\ [][NextPipeline]_vars

-----------------------------------------------------------------------------
(* PAXGPanel: update_data, update_rsi_state, check_short_signal and        *)
(* check_cover_signal, with one new candle per step                        *)

\* PAXGPanel.calculate_rsi: rsi.iloc[-1], or None for a short series.
panel_calculate_rsi(ps, span) ==
    IF Len(ps) < span + 1 THEN None ELSE rsi_at(ps, span, Len(ps) - 1)

\* s[-n:]
Tail_n(s, n) == IF Len(s) <= n THEN s ELSE SubSeq(s, Len(s) - n + 1, Len(s))

\* Python's max(list): the first element, replaced by each later element
\* that compares greater; a NaN never compares greater nor smaller.
RECURSIVE PyMaxFrom(_, _, _)
PyMaxFrom(s, k, m) ==
    IF k > Len(s) THEN m
    ELSE PyMaxFrom(s, k + 1, IF Greater(s[k], m) THEN s[k] ELSE m)
PyMax(s) == PyMaxFrom(s, 2, s[1])

\* self.last_rsi_values after the append and the pop(0).
NextLastRsiValues(values, current_rsi) ==
    Tail_n(Append(values, current_rsi), 10)

\* self.rsi_topped after update_rsi_state, values being the new
\* last_rsi_values.
NextRsiTopped(topped, values) ==
    IF Len(values) >= 3
    THEN IF RsiGe(PyMax(Tail_n(values, 10)), BOT_RSI_OVERBOUGHT) THEN TRUE
         ELSE IF /\ Greater(values[Len(values) - 1], values[Len(values) - 2])
                 /\ Greater(values[Len(values) - 1], values[Len(values)])
                 /\ RsiGt(values[Len(values) - 1], 60)
              THEN TRUE
              ELSE topped
    ELSE topped

\* Mutant: the window of the batch generator, the ten rows before the last.
NextSupportLevel_ExcludeCurrent(support, low) ==
    IF Len(low) >= 11
    THEN Float(MinOf({low[j] : j \in (Len(low) - 10)..(Len(low) - 1)}))
    ELSE support

\* self.support_level after update_rsi_state: df['low'].iloc[-10:].min()
NextSupportLevel(support, low) ==
    IF Len(low) >= 10
    THEN Float(MinOf({low[j] : j \in (Len(low) - 9)..Len(low)}))
    ELSE support

check_short_signal(topped, support, values, current_rsi, current_price) ==
    IF ~topped \/ support = None THEN FALSE
    ELSE LET rsi_crossed_below_50 ==
                 IF Len(values) >= 2
                 THEN RsiLt(values[Len(values)], 50)
                      /\ RsiGe(values[Len(values) - 1], 50)
                 ELSE RsiLt(current_rsi, 50)
             price_broke_support == current_price < support.value
         IN  rsi_crossed_below_50 /\ price_broke_support

check_cover_signal(values, current_rsi) ==
    IF Len(values) >= 2
    THEN RsiLe(current_rsi, BOT_RSI_OVERSOLD)
         /\ RsiGt(values[Len(values) - 1], BOT_RSI_OVERSOLD)
    ELSE RsiLe(current_rsi, BOT_RSI_OVERSOLD)

\* "Determine current signal": short first, then cover.
CurrentSignal(topped, support, values, current_rsi, current_price) ==
    IF current_rsi = None THEN 0
    ELSE IF check_short_signal(topped, support, values, current_rsi, current_price)
         THEN -1
    ELSE IF check_cover_signal(values, current_rsi) THEN 1
    ELSE 0

\* A new candle closes; update_data reads the candles, computes the RSI and
\* updates the double-confirm state; then the current signal is determined.
\* get_recent_candles returns the last rsi_period + 50 candles, which is the
\* whole series up to MaxCandles.  The candle's low is its price.
NewCandle ==
    /\ mode = "live"
    /\ Len(candles) < MaxCandles
    /\ \E price \in LivePrices :
         LET df_price == Append(candles, price)
             df_low == Append(lows, price)
             updated == Len(df_price) >= rsi_period + 1
             new_rsi == IF updated THEN panel_calculate_rsi(df_price, rsi_period)
                                   ELSE rsi_value
             values == IF updated THEN NextLastRsiValues(last_rsi_values, new_rsi)
                                  ELSE last_rsi_values
             topped == IF updated THEN NextRsiTopped(rsi_topped, values)
                                  ELSE rsi_topped
             support == IF updated THEN NextSupportLevel(support_level, df_low)
                                   ELSE support_level
         IN  /\ candles' = df_price
             /\ lows' = df_low
             /\ rsi_value' = new_rsi
             /\ last_rsi_values' = values
             /\ rsi_topped' = topped
             /\ support_level' = support
             /\ live_signal' = CurrentSignal(topped, support, values, new_rsi, price)
    /\ UNCHANGED <<mode, rsi_period>>
    /\ UNCHANGED <<backtestVars, optVars, testerVars, tradingVars>>

InitLive ==
    /\ mode = "live"
    /\ IdleBacktest
    /\ IdleOptimize
    /\ IdleTester
    /\ IdleTrading
    /\ candles = <<>>
    /\ lows = <<>>
    /\ rsi_period \in PeriodSet
    /\ last_rsi_values = <<>>
    /\ rsi_topped = FALSE
    /\ support_level = None
    /\ rsi_value = None
    /\ live_signal = 0

NextLive == NewCandle

SpecLive == InitLive /\ [][NextLive]_vars

-----------------------------------------------------------------------------
(* Properties of BacktestEngine.backtest and simulate_trade *)

Trades == {trades_list[k] : k \in 1..Len(trades_list)}

\* The bracket levels as the specification states them, for a trade entered
\* at entry_price, tested at sample k of the series.
TpReached(entry_price, is_long, k) ==
    IF is_long THEN At(prices, k) * 1000 >= entry_price * (1000 + take_profit)
               ELSE At(prices, k) * 1000 <= entry_price * (1000 - take_profit)
SlReached(entry_price, is_long, k) ==
    IF is_long THEN At(prices, k) * 1000 <= entry_price * (1000 + stop_loss)
               ELSE At(prices, k) * 1000 >= entry_price * (1000 - stop_loss)
LevelReached(t, k) ==
    \/ TpReached(t.entry_price, t.type = "long", k)
    \/ SlReached(t.entry_price, t.type = "long", k)
\* The samples after the entry of t at which a level is reached.
ReachedAfter(t) == {k \in (t.entry_idx + 1)..(Len(prices) - 1) : LevelReached(t, k)}
Min(S) == CHOOSE x \in S : \A y \in S : x <= y

\* C1: the trades are ordered and never overlap: each trade is entered
\* strictly after the exit of the trade before it, and a trade that is open
\* was entered strictly after the exit of every closed trade, so at most one
\* trade is open at any step of the scan.
C1_TradesNeverOverlap ==
    /\ \A k \in 1..(Len(trades_list) - 1) :
          trades_list[k + 1].entry_time > trades_list[k].exit_time
    /\ (pc = "loop" /\ current_trade # NoTrade) =>
          \A t \in Trades : current_trade.entry_time > t.exit_time

C1_Witness == pc = "done" /\ Len(trades_list) >= 2

\* C2 (as claimed): every emitted trade has exit_time strictly later than
\* entry_time, also when the entry signal is at the last sample.
C2_ExitAfterEntry == \A t \in Trades : t.exit_time > t.entry_time

\* C3 (as claimed): a trade closed by stop_loss, long or short, records
\* profit_pct = (stop_loss - 2*commission)*100.
C3_StopLossProfit ==
    \A t \in Trades :
        t.exit_reason = "stop_loss" =>
            RatEq(t.profit_pct, Rat(stop_loss - 2 * commission, 10))

\* C4: a trade closed by take_profit, long or short, records
\* profit_pct = (take_profit - 2*commission)*100, whatever the prices between
\* entry and exit and whatever the price at the exit sample.
C4_TakeProfitProfit ==
    \A t \in Trades :
        t.exit_reason = "take_profit" =>
            RatEq(t.profit_pct, Rat(take_profit - 2 * commission, 10))

\* A take-profit exit with a non-zero commission, two samples after the
\* entry and at a price strictly beyond the take-profit level.
C4_Witness ==
    /\ commission > 0
    /\ \E t \in Trades :
          /\ t.exit_reason = "take_profit" /\ t.type = "long"
          /\ t.exit_time = index(t.entry_idx + 2)
          /\ t.exit_price * 1000 > t.entry_price * (1000 + take_profit)

\* C5: a trade for which some sample after the entry reaches the take-profit
\* or the stop-loss level is closed at the first such sample, with
\* take_profit when the take-profit level is reached there and stop_loss
\* otherwise.
C5_FirstLevelReachedCloses ==
    \A t \in Trades :
        ReachedAfter(t) # {} =>
            LET x == Min(ReachedAfter(t))
            IN  /\ t.exit_time = index(x)
                /\ t.exit_price = At(prices, x)
                /\ t.exit_reason =
                     IF TpReached(t.entry_price, t.type = "long", x)
                     THEN "take_profit" ELSE "stop_loss"

\* Scenario D: long at 100 (500 ticks), then 101, then 99.4, with tp 0.01,
\* sl -0.005, commission 0.001: closed at the 101 sample, take_profit, 0.8 %.
C5_Witness ==
    /\ take_profit = 10 /\ stop_loss = -5 /\ commission = 1
    /\ \E t \in Trades :
          /\ t.type = "long" /\ t.entry_price = 500
          /\ t.entry_idx + 2 < Len(prices)
          /\ At(prices, t.entry_idx + 1) = 505
          /\ At(prices, t.entry_idx + 2) = 497
          /\ t.exit_time = index(t.entry_idx + 1)
          /\ t.exit_reason = "take_profit"
          /\ RatEq(t.profit_pct, Rat(8, 10))

\* C6: a trade for which no sample after the entry reaches either level is
\* closed at the final sample, with market_close, at the final price, and
\* its profit is the realized return, negated for a short, minus twice the
\* commission, as a percentage.
C6_MarketClose ==
    \A t \in Trades :
        ReachedAfter(t) = {} =>
            /\ t.exit_reason = "market_close"
            /\ t.exit_time = index(Len(prices) - 1)
            /\ t.exit_price = Last(prices)
            /\ LET diff == IF t.type = "long" THEN Last(prices) - t.entry_price
                                             ELSE t.entry_price - Last(prices)
               IN  RatEq(t.profit_pct,
                         Rat(diff * 1000 - 2 * commission * t.entry_price,
                             t.entry_price * 10))

\* A short closed by market_close from inside the loop, at a final price
\* that differs from its entry price.
C6_Witness ==
    \E t \in Trades :
        /\ t.exit_reason = "market_close" /\ t.type = "short"
        /\ t.entry_idx < Len(prices) - 1
        /\ t.exit_price # t.entry_price

-----------------------------------------------------------------------------
(* Properties of ParameterOptimizer.optimize *)

Evaluated == {results[k] : k \in 1..Len(results)}
Qualifying == {r \in Evaluated : r.total_trades >= min_trades}

\* C7: optimize returns, among the evaluated combinations with at least
\* MIN_TRADES_THRESHOLD trades, one of highest total_profit; a recorded
\* combination with fewer trades is never the one returned.
C7_BestAmongQualifying ==
    opt_pc = "returned" =>
        /\ Qualifying # {} =>
              \E r \in Qualifying :
                  /\ best_result.parameters = r.params
                  /\ best_result.total_profit = r.total_profit
                  /\ best_result.metrics.total_trades = r.total_trades
                  /\ \A q \in Qualifying : q.total_profit.value <= r.total_profit.value
        /\ \A r \in Evaluated :
              r.total_trades < min_trades => best_result.parameters # r.params

\* Scenario E: threshold 5; 3 trades at +5 % lose to 6 trades at +3 %.
C7_Witness ==
    /\ opt_pc = "returned" /\ min_trades = 5
    /\ \E a, b \in Evaluated :
          /\ a.total_trades = 3 /\ a.total_profit = Finite(5)
          /\ b.total_trades = 6 /\ b.total_profit = Finite(3)
          /\ best_result.parameters = b.params
          /\ best_result.total_profit = Finite(3)

\* C8: a combination whose evaluation raises does not end the search: every
\* other combination is appended to results exactly once, and a combination
\* that raised is neither in results nor returned as the best.
C8_FailureIsSkipped ==
    opt_pc = "returned" =>
        \A k \in 1..Len(combinations) :
            LET c == combinations[k]
                n == Cardinality({j \in 1..Len(results) : results[j].params = c})
            IN  IF c \in raised
                THEN n = 0 /\ best_result.parameters # c
                ELSE n = 1

\* The first combination raised and a later one is returned as the best.
C8_Witness ==
    /\ opt_pc = "returned"
    /\ Len(combinations) >= 2
    /\ combinations[1] \in raised
    /\ best_result.parameters = combinations[2]

\* C9: when no evaluated combination has MIN_TRADES_THRESHOLD trades, also
\* when there is no combination, optimize returns parameters, metrics and
\* trades_df all None.
C9_NoWinner ==
    (opt_pc = "returned" /\ Qualifying = {}) =>
        /\ best_result.parameters = None
        /\ best_result.metrics = None
        /\ best_result.trades_df = None

\* Combinations were evaluated, all below the threshold, and optimize has
\* returned.
C9_Witness ==
    /\ opt_pc = "returned"
    /\ Len(results) >= 2
    /\ Qualifying = {}
    /\ best_result.parameters = None

-----------------------------------------------------------------------------
(* Properties of the double-confirm state machine *)

\* The batch generator on the candles fed so far, with the panel's period
\* and thresholds.
BatchRsi == calculate_rsi(candles, rsi_period)
BatchSignals ==
    generate_signals(candles, rsi_period, BOT_RSI_OVERSOLD, BOT_RSI_OVERBOUGHT)

\* C10 (as claimed): after every candle the panel's current signal, topped
\* flag and support level are those of the batch generator at the last index
\* of the same series.
C10_StreamEqualsBatch ==
    (mode = "live" /\ Len(candles) >= 1) =>
        LET k == Len(candles) - 1
        IN  /\ live_signal = At(BatchSignals, k)
            /\ rsi_topped = batch_rsi_topped(BatchRsi, BOT_RSI_OVERBOUGHT, k)
            /\ support_level = batch_support_level(candles, k)

-----------------------------------------------------------------------------
(* Properties of the algorithms of algos/ run by BacktestEngine.backtest *)

\* generate_signals of the double-confirm algorithm has run.
DoubleConfirmRan ==
    /\ mode = "backtest" /\ pc \notin {"signals", "idle"}
    /\ algorithm # None
    /\ algorithm.name = "RSI_1MIN_DOUBLE_CONFIRM"

\* rsi_topped.iloc[k] of that run.
BatchTopped(k) ==
    batch_rsi_topped(rsi_series, algorithm.overbought_threshold, k)

\* C11 (as claimed): once the batch generator has detected a top at sample
\* k, topped is true at every later sample j, unless a cover signal lies
\* between the two (the generator closes no trade itself).
C11_ToppedPersists ==
    DoubleConfirmRan =>
        \A k \in 0..(Len(prices) - 1), j \in 0..(Len(prices) - 1) :
            (/\ k < j
             /\ BatchTopped(k)
             /\ \A m \in k..j : At(signals, m) # 1)
            => BatchTopped(j)

\* The three entry conditions of a short as the specification states them,
\* at sample k of the candles: topped, the RSI crossed from >= 50 to < 50,
\* and the price is strictly below the minimum of the 10 samples before k.
ShortConditions(k) ==
    /\ batch_rsi_topped(BatchRsi, BOT_RSI_OVERBOUGHT, k)
    /\ k >= 1
    /\ RsiGe(At(BatchRsi, k - 1), 50)
    /\ RsiLt(At(BatchRsi, k), 50)
    /\ k >= 10
    /\ \A j \in (k - 10)..(k - 1) : At(candles, k) < At(candles, j)

\* C12 (as claimed): the batch generator emits -1 at a sample if and only if
\* the three entry conditions hold there.
C12_ShortIffConditions ==
    (mode = "live" /\ Len(candles) >= 1) =>
        LET k == Len(candles) - 1
        IN  (At(BatchSignals, k) = -1) <=> ShortConditions(k)

\* generate_signals of the threshold-crossing algorithm has run.
ThresholdRan ==
    /\ mode = "backtest" /\ pc \notin {"signals", "idle"}
    /\ algorithm # None
    /\ algorithm.name = "RSI"

\* The RSI went from <= oversold at sample k-1 to > oversold at sample k,
\* both values being defined; and from >= overbought to < overbought.
CrossedAboveOversold(k) ==
    /\ k >= 1
    /\ ~IsNaN(At(rsi_series, k - 1)) /\ ~IsNaN(At(rsi_series, k))
    /\ RsiLe(At(rsi_series, k - 1), algorithm.oversold_threshold)
    /\ RsiGt(At(rsi_series, k), algorithm.oversold_threshold)
CrossedBelowOverbought(k) ==
    /\ k >= 1
    /\ ~IsNaN(At(rsi_series, k - 1)) /\ ~IsNaN(At(rsi_series, k))
    /\ RsiGe(At(rsi_series, k - 1), algorithm.overbought_threshold)
    /\ RsiLt(At(rsi_series, k), algorithm.overbought_threshold)

\* C13: the threshold-crossing generator emits +1 exactly at the samples
\* where the RSI crossed above the oversold threshold, -1 exactly where it
\* crossed below the overbought threshold and 0 at every other sample; the
\* two crossings never fall on the same sample.
C13_ThresholdCrossing ==
    ThresholdRan =>
        /\ Len(signals) = Len(prices)
        /\ \A k \in 0..(Len(prices) - 1) :
             /\ (At(signals, k) = 1) <=> CrossedAboveOversold(k)
             /\ (At(signals, k) = -1) <=> CrossedBelowOverbought(k)
             /\ At(signals, k) \in {-1, 0, 1}
             /\ ~(CrossedAboveOversold(k) /\ CrossedBelowOverbought(k))

\* A run with a long entry, a short entry, and a hold on a sample whose RSI
\* is above the oversold threshold.
C13_Witness ==
    /\ ThresholdRan
    /\ algorithm.oversold_threshold < algorithm.overbought_threshold
    /\ \E k \in 0..(Len(prices) - 1) : At(signals, k) = 1
    /\ \E k \in 0..(Len(prices) - 1) : At(signals, k) = -1
    /\ \E k \in 0..(Len(prices) - 1) :
         /\ At(signals, k) = 0
         /\ RsiGt(At(rsi_series, k), algorithm.oversold_threshold)

-----------------------------------------------------------------------------
(* Properties of calculate_performance_metrics *)

\* backtest has returned.
Returned == mode = "backtest" /\ pc = "done"

\* A metrics field that is a number and is zero.
IsZero(x) == x # PosInf /\ x.den # 0 /\ x.num = 0

\* C14: for an empty trade set backtest returns a metrics record whose
\* twelve fields are all zero; the profit factor is the number 0, it is
\* neither infinite nor a quotient by zero.
C14_EmptyMetricsAllZero ==
    (Returned /\ trades_list = <<>>) =>
        /\ DOMAIN bt_metrics =
             {"total_trades", "win_rate", "avg_profit", "total_profit",
              "max_drawdown", "profit_factor", "long_trades", "short_trades",
              "avg_trade_duration", "take_profit_exits", "stop_loss_exits",
              "market_close_exits"}
        /\ bt_metrics.total_trades = 0
        /\ IsZero(bt_metrics.win_rate)
        /\ IsZero(bt_metrics.avg_profit)
        /\ IsZero(bt_metrics.total_profit)
        /\ IsZero(bt_metrics.max_drawdown)
        /\ IsZero(bt_metrics.profit_factor)
        /\ bt_metrics.long_trades = 0
        /\ bt_metrics.short_trades = 0
        /\ IsZero(bt_metrics.avg_trade_duration)
        /\ bt_metrics.take_profit_exits = 0
        /\ bt_metrics.stop_loss_exits = 0
        /\ bt_metrics.market_close_exits = 0

\* A series of several samples was scanned and no trade was made.
C14_Witness ==
    /\ Returned
    /\ Len(prices) >= 3
    /\ trades_list = <<>>
    /\ bt_metrics # None

\* The winning (profit > 0) and the losing (profit <= 0) trades, by position.
Winners ==
    {k \in 1..Len(trades_list) : RatLess(Zero, trades_list[k].profit_pct)}
Losers == (1..Len(trades_list)) \ Winners

\* sum(|profit|) over the trades of S, on the scale ProfitDen(trades_list).
RECURSIVE SumAbsFrom(_, _, _)
SumAbsFrom(ns, S, k) ==
    IF k > Len(ns) THEN 0
    ELSE (IF k \in S THEN Abs(ns[k]) ELSE 0) + SumAbsFrom(ns, S, k + 1)
SumAbs(S) == SumAbsFrom(ProfitNums(trades_list), S, 1)

\* C15: for a non-empty trade set the profit factor is the quotient of
\* sum(|profit|) over the winning trades by sum(|profit|) over the losing
\* trades wherever that divisor is not zero, it is +infinity when there is
\* no losing trade (and so at least one winning trade), and it is never a
\* quotient by zero.
C15_ProfitFactor ==
    (Returned /\ trades_list # <<>>) =>
        LET pf == bt_metrics.profit_factor
        IN  /\ pf = PosInf \/ pf.den # 0
            /\ SumAbs(Losers) # 0 =>
                 /\ pf # PosInf
                 /\ pf.num = SumAbs(Winners)
                 /\ pf.den = SumAbs(Losers)
            /\ (Losers = {} /\ Winners # {}) => pf = PosInf

\* A winning and a losing trade whose sums differ.
C15_Witness ==
    /\ Returned
    /\ Winners # {}
    /\ Losers # {}
    /\ SumAbs(Losers) # 0
    /\ SumAbs(Winners) # SumAbs(Losers)

-----------------------------------------------------------------------------
(* Properties of the strategy identifier and of the parameter ranges *)

\* get_available_algorithms(): the valid identifiers.
KnownStrategies == {"RSI", "RSI_1MIN_DOUBLE_CONFIRM"}

\* C16 (as claimed): an optimizer constructed with an identifier that is not
\* a known strategy fails, once get_parameter_combinations has run, with an
\* unknown-strategy error whose message enumerates the valid identifiers;
\* no algorithm instance was created and no combination was evaluated.
C16_UnknownStrategyEnumerates ==
    (mode = "optimize" /\ opt_pc # "start"
     /\ algorithm_name \notin KnownStrategies) =>
        /\ opt_pc = "raised"
        /\ opt_error # None
        /\ opt_error.type = "ValueError"
        /\ opt_error.name = algorithm_name
        /\ Range(opt_error.available) = KnownStrategies
        /\ ~created
        /\ results = <<>> /\ raised = {} /\ opt_i = 0

\* C17 (as claimed): when a parameter range is empty, so that there is no
\* combination, optimize does not return normally: it fails with an
\* InvalidParameterRange error.
C17_EmptyRangeFails ==
    (mode = "optimize" /\ opt_pc # "start"
     /\ algorithm_name = "RSI"
     /\ (param_ranges.take_profit = <<>> \/ param_ranges.stop_loss = <<>>)) =>
        /\ opt_pc = "raised"
        /\ opt_error # None
        /\ opt_error.type = "InvalidParameterRange"

-----------------------------------------------------------------------------
(* Properties of calculate_rsi and of a series shorter than the period *)

\* C18 (as claimed): on a price series shorter than the RSI period the
\* threshold-crossing algorithm fires no signal, backtest opens no trade and
\* returns the empty trade set with the all-zero metrics record.
C18_ShortSeriesNoTrade ==
    (ThresholdRan /\ Len(prices) < algorithm.period) =>
        /\ \A k \in 0..(Len(prices) - 1) : At(signals, k) = 0
        /\ current_trade = NoTrade
        /\ trades_list = <<>>
        /\ pc = "done" => bt_metrics = EmptyMetrics

\* generate_signals of either algorithm has run, and with it calculate_rsi.
RsiCalculated ==
    /\ mode = "backtest" /\ pc \notin {"signals", "idle"}
    /\ algorithm # None

\* C19 (as claimed): on a series of at least period + 2 samples the RSI is
\* NaN at every index below the period and defined at every index from the
\* period on.
C19_WarmUp ==
    (RsiCalculated /\ Len(prices) >= algorithm.period + 2) =>
        \A k \in 0..(Len(prices) - 1) :
            IF k < algorithm.period THEN IsNaN(At(rsi_series, k))
                                    ELSE ~IsNaN(At(rsi_series, k))

\* No price decrease up to sample k, and at least one increase.
OnlyGains(k) ==
    /\ \A j \in 1..k : At(prices, j) >= At(prices, j - 1)
    /\ \E j \in 1..k : At(prices, j) > At(prices, j - 1)

\* C20: every defined RSI value lies in [0, 100]; where the smoothed
\* average loss is 0 and the smoothed average gain is positive the value is
\* exactly 100, not an error.  The average loss is 0 while the price never
\* fell, and the average gain is then positive after a first increase (for
\* a period above 1: with period 1 the average is the last change alone).
C20_RsiRange ==
    RsiCalculated =>
        \A k \in 0..(Len(prices) - 1) :
            LET r == At(rsi_series, k)
                v == rsi_of(r)
            IN  /\ v # NaN =>
                     /\ v.den > 0
                     /\ 0 <= v.num
                     /\ v.num <= 100 * v.den
                /\ (r.l = 0 /\ r.g > 0) =>
                     /\ v # NaN
                     /\ v.num = 100 * v.den
                /\ OnlyGains(k) => r.l = 0
                /\ (OnlyGains(k) /\ algorithm.period > 1) => r.g > 0

\* A series whose RSI is 100 at a sample up to which the price only rose,
\* and strictly inside (0, 100) at a later one.
C20_Witness ==
    /\ RsiCalculated
    /\ \E k \in 0..(Len(prices) - 1), j \in 0..(Len(prices) - 1) :
         /\ k < j
         /\ OnlyGains(k)
         /\ At(rsi_series, k).l = 0 /\ At(rsi_series, k).g > 0
         /\ rsi_of(At(rsi_series, k)) = Rat(100, 1)
         /\ rsi_of(At(rsi_series, j)) # NaN
         /\ 0 < rsi_of(At(rsi_series, j)).num
         /\ rsi_of(At(rsi_series, j)).num < 100 * rsi_of(At(rsi_series, j)).den

-----------------------------------------------------------------------------
(* Scenarios *)

\* Every sample of the series has the same price.
ConstantSeries == \A k \in 1..Len(prices) : prices[k] = prices[1]

\* C21 (Scenario A): on a constant price series the RSI is NaN at every
\* index, the algorithm (threshold-crossing or double-confirm) emits 0 at
\* every sample, no trade is opened, and backtest returns no trade and the
\* all-zero metrics record.
C21_ConstantSeries ==
    (RsiCalculated /\ ConstantSeries) =>
        /\ Len(rsi_series) = Len(prices) /\ Len(signals) = Len(prices)
        /\ \A k \in 0..(Len(prices) - 1) :
             /\ IsNaN(At(rsi_series, k))
             /\ rsi_of(At(rsi_series, k)) = NaN
             /\ At(signals, k) = 0
        /\ current_trade = NoTrade
        /\ trades_list = <<>>
        /\ pc = "done" => bt_metrics = EmptyMetrics

\* backtest has returned from a constant series of several samples, given
\* to the double-confirm algorithm.
C21_Witness ==
    /\ RsiCalculated /\ pc = "done"
    /\ ConstantSeries /\ Len(prices) >= 4
    /\ algorithm.name = "RSI_1MIN_DOUBLE_CONFIRM"
    /\ bt_metrics = EmptyMetrics

-----------------------------------------------------------------------------
(* Properties of the scan of BacktestEngine.backtest *)

\* The trades opened so far, in order: the closed ones, then the open one.
Opened ==
    IF current_trade = NoTrade \/ pc = "done" THEN trades_list
    ELSE Append(trades_list, current_trade)

\* The index at which the scan for the n-th trade starts: 1 for the first,
\* the sample after the exit of the trade before for the others.
ScanStart(n) == IF n = 1 THEN 1 ELSE trades_list[n - 1].exit_time + 1

\* C22: every trade is opened at the smallest index, from the start of its
\* scan on, whose signal is not 0, at that sample's price, long for +1 and
\* short for -1; the scan for the first trade starts at index 1 and the scan
\* for the next at the sample after the exit, so the signals between an
\* entry and its exit open nothing; and when backtest returns no signal is
\* left unanswered after the last exit.
C22_NextEntry ==
    mode = "backtest" /\ pc \in {"loop", "end", "done"} =>
        /\ \A n \in 1..Len(Opened) :
             LET t == Opened[n]
             IN  /\ t.entry_idx >= ScanStart(n)
                 /\ t.entry_idx < Len(prices)
                 /\ At(signals, t.entry_idx) \in {-1, 1}
                 /\ \A j \in ScanStart(n)..(t.entry_idx - 1) : At(signals, j) = 0
                 /\ t.entry_price = At(prices, t.entry_idx)
                 /\ t.entry_time = index(t.entry_idx)
                 /\ t.type = IF At(signals, t.entry_idx) = 1 THEN "long" ELSE "short"
        /\ pc = "done" =>
             \A j \in ScanStart(Len(trades_list) + 1)..(Len(prices) - 1) :
                 At(signals, j) = 0

\* Two trades, the first of which ignored a signal at its exit sample.
C22_Witness ==
    /\ mode = "backtest" /\ pc = "done"
    /\ Len(trades_list) >= 2
    /\ trades_list[1].exit_time > trades_list[1].entry_idx
    /\ At(signals, trades_list[1].exit_time) # 0
    /\ trades_list[2].entry_idx = trades_list[1].exit_time + 1

\* The samples the for loop of simulate_trade visited for the closed trade
\* t; a trade closed by the end-of-data handler was not scanned, its entry
\* being the last sample.
ScanRange(t) == (t.entry_idx + 1)..t.exit_time

ScansDisjoint ==
    \A a \in 1..Len(trades_list), b \in 1..Len(trades_list) :
        a # b => ScanRange(trades_list[a]) \cap ScanRange(trades_list[b]) = {}

\* C23: backtest terminates.  Every iteration of the while loop strictly
\* increases the scan index i, which never exceeds the length of the series
\* inside the loop, and the loop is left once i has reached the length; after
\* every step the open-trade scans of different trades have visited pairwise
\* disjoint sets of samples.
C23_Terminates ==
    [][/\ (mode = "backtest" /\ pc = "loop") =>
            \/ pc' = "loop" /\ i < Len(prices) /\ i' > i /\ i' <= Len(prices)
            \/ pc' = "end" /\ i >= Len(prices) /\ i' = i
       /\ ScansDisjoint']_vars

\* backtest has returned after a trade whose scan visited several samples.
C23_Witness ==
    /\ mode = "backtest" /\ pc = "done"
    /\ i = Len(prices)
    /\ \E n \in 1..Len(trades_list) :
         Cardinality(ScanRange(trades_list[n])) >= 2

-----------------------------------------------------------------------------
(* Properties of the double-confirm signals *)

\* Top detection as the specification states it, at sample k of the batch
\* run: the RSI reached the overbought threshold within the 10 samples
\* ending at k, or the sample two steps back is a strict local peak above 60.
ClaimedTopped(k) ==
    \/ \E j \in Max2(0, k - 9)..k :
          RsiGe(At(rsi_series, j), algorithm.overbought_threshold)
    \/ /\ k >= 3
       /\ Greater(At(rsi_series, k - 2), At(rsi_series, k - 3))
       /\ Greater(At(rsi_series, k - 2), At(rsi_series, k - 1))
       /\ RsiGt(At(rsi_series, k - 2), 60)

\* C24 (as claimed): at every sample the batch generator's topped flag is
\* the top detection stated above.
C24_TopDetection ==
    DoubleConfirmRan =>
        \A k \in 0..(Len(prices) - 1) : BatchTopped(k) <=> ClaimedTopped(k)

\* The RSI of the candles crossed from above the oversold threshold at
\* sample k - 1 to at or below it at sample k.
CrossedToOversold(k) ==
    /\ k >= 1
    /\ RsiGt(At(BatchRsi, k - 1), BOT_RSI_OVERSOLD)
    /\ RsiLe(At(BatchRsi, k), BOT_RSI_OVERSOLD)

\* C25: the batch generator emits the cover signal +1 at exactly the samples
\* where the RSI crosses from above the oversold threshold to at or below
\* it, whatever the topped flag and the support level are and whether or not
\* the conditions of a short hold at the same sample.  Stated at the last
\* sample of the candles: every series up to MaxCandles samples is reached,
\* and the signal at a sample depends on the samples up to it only.
C25_CoverIffCrossing ==
    (mode = "live" /\ Len(candles) >= 1) =>
        LET k == Len(candles) - 1
        IN  (At(BatchSignals, k) = 1) <=> CrossedToOversold(k)

\* The crossing and the three conditions of a short at the same sample: the
\* signal is the cover.
C25_Witness ==
    /\ mode = "live" /\ Len(candles) >= 1
    /\ LET k == Len(candles) - 1
       IN  /\ CrossedToOversold(k)
           /\ ShortConditions(k)
           /\ At(BatchSignals, k) = 1

-----------------------------------------------------------------------------
(* Properties of the selection of the best result *)

\* The best-selection of optimize applied to the recorded results res in
\* their order, starting from best: its parameters and total profit.
RECURSIVE SelectBest(_, _)
SelectBest(res, best) ==
    IF res = <<>> THEN best
    ELSE SelectBest(Tail(res),
                    IF IsBetter(Head(res), best)
                    THEN [total_profit |-> Head(res).total_profit,
                          parameters |-> Head(res).params]
                    ELSE best)

\* The recorded results in the order given by the permutation p.
Reordered(p) == [k \in 1..Len(results) |-> results[p[k]]]

\* C26 (as claimed): the parameter set and the total profit optimize returns
\* are those its selection gives for every order of evaluation of the same
\* combinations with the same results.
C26_OrderIndependent ==
    (mode = "optimize" /\ opt_pc = "returned" /\ Len(results) >= 1) =>
        \A p \in Permutations(1..Len(results)) :
            LET w == SelectBest(Reordered(p), InitialBest)
            IN  /\ w.parameters = best_result.parameters
                /\ w.total_profit = best_result.total_profit

\* The selection in the order of evaluation is the one optimize made.
SelectBestIsOptimize ==
    (mode = "optimize" /\ opt_pc = "returned") =>
        LET w == SelectBest(results, InitialBest)
        IN  /\ w.parameters = best_result.parameters
            /\ w.total_profit = best_result.total_profit

-----------------------------------------------------------------------------
(* Properties of get_parameter_combinations *)

\* get_parameter_combinations has been called for a strategy it has a
\* settings entry for.
CombinationsCalled ==
    /\ mode = "optimize" /\ opt_pc # "start"
    /\ algorithm_name \in OptimizerAlgorithms

\* The position of the value v in the list s of distinct values.
IndexOf(s, v) == CHOOSE k \in 1..Len(s) : s[k] = v

\* The cartesian product of the ranges of the threshold-crossing strategy
\* with the take_profit and stop_loss ranges, as a set of parameter sets.
FullProduct ==
    {[period |-> p, oversold_threshold |-> os, overbought_threshold |-> ob,
      take_profit |-> tp, stop_loss |-> sl] :
        p \in Range(get_parameter_ranges[1].values),
        os \in Range(get_parameter_ranges[2].values),
        ob \in Range(get_parameter_ranges[3].values),
        tp \in Range(param_ranges.take_profit),
        sl \in Range(param_ranges.stop_loss)}

\* The positions of the values of a parameter set in their ranges, the first
\* key first.
Positions(c) ==
    <<IndexOf(get_parameter_ranges[1].values, c.period),
      IndexOf(get_parameter_ranges[2].values, c.oversold_threshold),
      IndexOf(get_parameter_ranges[3].values, c.overbought_threshold),
      IndexOf(param_ranges.take_profit, c.take_profit),
      IndexOf(param_ranges.stop_loss, c.stop_loss)>>

\* a comes before b in the lexicographic order of tuples of equal length.
LexLess(a, b) ==
    \E k \in 1..Len(a) : a[k] < b[k] /\ \A j \in 1..(k - 1) : a[j] = b[j]

\* The list returned is the full product, each element once, in product
\* order.
IsFullProduct ==
    /\ Range(combinations) = FullProduct
    /\ Len(combinations) = Cardinality(FullProduct)
    /\ \A a \in 1..Len(combinations), b \in 1..Len(combinations) :
          a < b => LexLess(Positions(combinations[a]), Positions(combinations[b]))

\* C27 (as claimed): for every strategy with a settings entry,
\* get_parameter_combinations returns the list of the combinations of the
\* product that pass the strategy's filter, each once and in product order,
\* and raises nothing; the threshold-crossing strategy has no filter.
C27_FilteredProduct ==
    CombinationsCalled =>
        /\ opt_pc # "raised"
        /\ algorithm_name = "RSI" => IsFullProduct

\* The same for the one strategy with a settings entry the factory creates.
ProductOfCreated ==
    (CombinationsCalled /\ algorithm_name \in Range(FactoryAlgorithms)) =>
        /\ opt_pc # "raised"
        /\ IsFullProduct

-----------------------------------------------------------------------------
(* Properties of the metrics of a non-empty trade set *)

\* The cumulative profit at trade k, on the scale ProfitDen(trades_list).
RECURSIVE CumulativeProfit(_)
CumulativeProfit(k) ==
    IF k = 0 THEN 0
    ELSE CumulativeProfit(k - 1) + ProfitNums(trades_list)[k]

\* C28: max_drawdown of a non-empty trade set is the maximum over the trades
\* k of the running maximum of the cumulative profit up to and including k
\* minus the cumulative profit at k; it is never negative, and the running
\* maximum starts at the first trade's cumulative profit, so that a single
\* losing trade has max_drawdown 0.
C28_MaxDrawdown ==
    (Returned /\ trades_list # <<>>) =>
        LET dd == bt_metrics.max_drawdown
            n == Len(trades_list)
        IN  /\ dd.den = ProfitDen(trades_list)
            /\ dd.num >= 0
            /\ \E k \in 1..n : \E j \in 1..k :
                  dd.num = CumulativeProfit(j) - CumulativeProfit(k)
            /\ \A k \in 1..n : \A j \in 1..k :
                  dd.num >= CumulativeProfit(j) - CumulativeProfit(k)
            /\ n = 1 => dd.num = 0

\* A first trade that loses followed by a further loss: the drawdown is
\* positive and smaller than the fall from zero.
C28_Witness ==
    /\ Returned
    /\ Len(trades_list) >= 2
    /\ CumulativeProfit(1) < 0
    /\ bt_metrics.max_drawdown.num > 0
    /\ bt_metrics.max_drawdown.num < 0 - CumulativeProfit(Len(trades_list))

\* The number of trades of the trade set with the exit reason r, and with
\* the type ty.
ExitsBy(r) == Cardinality({k \in 1..Len(trades_list) : trades_list[k].exit_reason = r})
TradesOf(ty) == Cardinality({k \in 1..Len(trades_list) : trades_list[k].type = ty})

\* C29: for every trade set backtest produces, the three exit-reason counts
\* add up to total_trades and so do long_trades and short_trades; each
\* count is the number of trades with that reason or type, 0 when there is
\* none; and for a non-empty trade set win_rate is 100 times the number of
\* trades with profit_pct > 0 divided by total_trades.
C29_CountsAndWinRate ==
    Returned =>
        /\ bt_metrics.total_trades = Len(trades_list)
        /\ bt_metrics.take_profit_exits + bt_metrics.stop_loss_exits
             + bt_metrics.market_close_exits = bt_metrics.total_trades
        /\ bt_metrics.long_trades + bt_metrics.short_trades
             = bt_metrics.total_trades
        /\ bt_metrics.take_profit_exits = ExitsBy("take_profit")
        /\ bt_metrics.stop_loss_exits = ExitsBy("stop_loss")
        /\ bt_metrics.market_close_exits = ExitsBy("market_close")
        /\ bt_metrics.long_trades = TradesOf("long")
        /\ bt_metrics.short_trades = TradesOf("short")
        /\ trades_list # <<>> =>
             RatEq(bt_metrics.win_rate,
                   Rat(100 * Cardinality(Winners), Len(trades_list)))

\* A winning trade, a trade of profit zero, and no stop-loss exit.
C29_Witness ==
    /\ Returned
    /\ Winners # {}
    /\ \E k \in 1..Len(trades_list) : trades_list[k].profit_pct.num = 0
    /\ ExitsBy("stop_loss") = 0
    /\ bt_metrics.stop_loss_exits = 0

-----------------------------------------------------------------------------
(* Scenario B: a steadily rising price *)

\* Every sample of the series is above the one before.
StrictlyRising == \A k \in 2..Len(prices) : prices[k] > prices[k - 1]

\* The samples at which the generator emitted the signal s.
SignalsAt(s) == {k \in 0..(Len(signals) - 1) : At(signals, k) = s}

\* C30 (as claimed): on a strictly rising series of full length the
\* threshold-crossing generator emits exactly one -1 over the whole series.
C30_OneShortOnRise ==
    (ThresholdRan /\ StrictlyRising /\ Len(prices) = MaxSeries) =>
        Cardinality(SignalsAt(-1)) = 1

\* C30 (amended): on a strictly rising series the smoothed loss is 0 at
\* every sample, the RSI is NaN at the first sample and exactly 100 at every
\* later one, so it never comes back under the overbought threshold and the
\* threshold-crossing generator emits no -1, and no +1 either.
C30_NoSignalOnRise ==
    (ThresholdRan /\ StrictlyRising) =>
        /\ Len(signals) = Len(prices)
        /\ \A k \in 0..(Len(prices) - 1) :
             LET r == At(rsi_series, k)
             IN  /\ k = 0 => rsi_of(r) = NaN
                 /\ k >= 1 => /\ r.l = 0 /\ r.g > 0
                              /\ rsi_of(r) = Rat(100, 1)
                              /\ RsiGe(r, algorithm.overbought_threshold)
        /\ SignalsAt(-1) = {}
        /\ SignalsAt(1) = {}

\* backtest has returned from a rising series of MaxSeries samples with
\* steps of both sizes, given to the threshold-crossing generator.
C30_Witness ==
    /\ ThresholdRan /\ pc = "done"
    /\ StrictlyRising /\ Len(prices) = MaxSeries
    /\ \E k \in 2..Len(prices) : prices[k] - prices[k - 1] = 1
    /\ \E k \in 2..Len(prices) : prices[k] - prices[k - 1] = 2
    /\ SignalsAt(-1) = {}

-----------------------------------------------------------------------------
(* Properties of the failure of one evaluation *)

\* The parameter sets found in what the optimizer keeps after the search:
\* self.results and the best result it returns.
RecordedParameters ==
    {results[k].params : k \in 1..Len(results)}
    \cup (IF best_result.parameters = None THEN {} ELSE {best_result.parameters})

\* C31 (as claimed): when the search is over, every parameter set whose
\* evaluation raised is found, as a failure, in what the optimizer recorded.
C31_FailureRecorded ==
    (mode = "optimize" /\ opt_pc = "returned") =>
        \A c \in raised : c \in RecordedParameters

-----------------------------------------------------------------------------
(* Properties of the signals read while a trade is open *)

\* A signal m samples into the series that asks for the side opposite to the
\* trade t, after its entry and with no level reached up to that sample.
OppositeSignalInside(t, m) ==
    /\ t.entry_idx < m /\ m <= Len(prices) - 1
    /\ At(signals, m) = (IF t.type = "long" THEN -1 ELSE 1)
    /\ \A k \in (t.entry_idx + 1)..m : ~LevelReached(t, k)

\* Every closed trade was closed by a level or at the end of the series, and
\* a signal of the opposite side has not closed it: the trade runs beyond
\* the signal's sample, or ends there with market_close at the last sample.
ClosedByLevelOnly ==
    \A t \in Trades :
        /\ t.exit_reason \in {"take_profit", "stop_loss", "market_close"}
        /\ t.exit_reason \in {"take_profit", "stop_loss"} =>
              LevelReached(t, t.exit_time)
        /\ t.exit_reason = "market_close" => t.exit_time = index(Len(prices) - 1)
        /\ \A m \in 0..(Len(prices) - 1) :
              OppositeSignalInside(t, m) =>
                  \/ t.exit_time > index(m)
                  \/ m = Len(prices) - 1 /\ t.exit_reason = "market_close"

-----------------------------------------------------------------------------
(* Properties of the strategy identifiers of the optimizer and the factory *)

\* get_parameter_combinations has raised its own "Unknown algorithm" error,
\* which lists no identifiers; the factory's error lists them.
RaisedByOptimizer ==
    /\ opt_pc = "raised"
    /\ opt_error # None /\ opt_error.type = "ValueError"
    /\ opt_error.name = algorithm_name
    /\ opt_error.available = <<>>
RaisedByFactory ==
    /\ opt_pc = "raised"
    /\ opt_error # None /\ opt_error.type = "ValueError"
    /\ opt_error.name = algorithm_name
    /\ opt_error.available = <<"RSI", "RSI_1MIN_DOUBLE_CONFIRM">>

\* C33: the optimizer and the factory accept different identifiers.  For
\* RSI_1MIN_DOUBLE_CONFIRM get_parameter_combinations raises its own
\* "Unknown algorithm"; for MACD, SUPPORT_VOLUME, VOL24 and SMA its name
\* check passes and the factory raises; only for RSI does it return
\* combinations.
C33_IdentifiersDiffer ==
    (mode = "optimize" /\ opt_pc # "start") =>
        /\ algorithm_name = "RSI_1MIN_DOUBLE_CONFIRM" => RaisedByOptimizer
        /\ algorithm_name \in {"MACD", "SUPPORT_VOLUME", "VOL24", "SMA"} =>
              RaisedByFactory
        /\ algorithm_name = "RSI" => opt_pc # "raised" /\ created
        /\ opt_pc # "raised" => algorithm_name = "RSI"

\* The factory's own identifier rejected by the optimizer.
C33_Witness ==
    /\ mode = "optimize"
    /\ algorithm_name = "RSI_1MIN_DOUBLE_CONFIRM"
    /\ RaisedByOptimizer
    /\ algorithm_name \in Range(FactoryAlgorithms)

-----------------------------------------------------------------------------
(* Properties of the market_close exit *)

\* The positions in the result of the trades closed with market_close.
MarketCloses ==
    {k \in 1..Len(trades_list) : trades_list[k].exit_reason = "market_close"}

\* C35: in every result of backtest at most one trade has exit_reason
\* market_close; if there is one it is the last trade of the result and its
\* exit is the last sample of the series.
C35_OneMarketClose ==
    mode = "backtest" =>
        /\ Cardinality(MarketCloses) <= 1
        /\ \A k \in MarketCloses :
              /\ k = Len(trades_list)
              /\ trades_list[k].exit_time = index(Len(prices) - 1)
              /\ trades_list[k].exit_price = Last(prices)

\* A result of two trades, the first closed by a level and the second with
\* market_close.
C35_Witness ==
    /\ mode = "backtest" /\ pc = "done"
    /\ Len(trades_list) >= 2
    /\ MarketCloses = {Len(trades_list)}

-----------------------------------------------------------------------------
(* PAXGPanel.run: update_data, execute_trading_cycle, close_position and   *)
(* create_short_market_order.  Money is in USD, time in minutes, the       *)
(* fractions take_profit_pct and stop_loss_pct in per-mille.               *)

MaxUpdates == 4                 \* most calls of update_data
MaxTime == 5                    \* the clock stops here
TickMinutes == 5                \* the time between two readings of the clock

\* settings.py
BOT_RSI_PERIOD == 10
BOT_TAKE_PROFIT == 15
BOT_STOP_LOSS == -7
BOT_POSITION_VALUE_USD == 100
BOT_MAX_TOTAL_POSITION_USD == 500
BOT_BUY_COOLDOWN_MINUTES == 5

\* The PAXG position user_state can report: its szi, its unrealizedPnl and
\* its value abs(szi) * mid at the current mid price.
ExPositions ==
    {[szi |-> 0, pnl |-> 0, value |-> 0],
     [szi |-> -1, pnl |-> -1, value |-> 100],
     [szi |-> -1, pnl |-> 0, value |-> 100],
     [szi |-> -1, pnl |-> 2, value |-> 100],
     [szi |-> -5, pnl |-> 0, value |-> 500]}

\* The RSI of a fetched price column: 10 and 80.
RsiValues == {[g |-> 1, l |-> 9], [g |-> 4, l |-> 1]}

\* The last candle of a fetched frame: its low and its close.
LastCandles == {[low |-> 100, close |-> 101], [low |-> 101, close |-> 101]}

\* get_recent_candles(limit = rsi_period + 50): the last rsi_period + 1 rows
\* of the frame, columns low and price, ten quiet candles at 101 before the
\* last one, and the RSI calculate_rsi gives for the whole price column.
TradingFrames ==
    {[low |-> [k \in 1..(BOT_RSI_PERIOD + 1) |->
                  IF k <= BOT_RSI_PERIOD THEN 101 ELSE c.low],
      price |-> [k \in 1..(BOT_RSI_PERIOD + 1) |->
                  IF k <= BOT_RSI_PERIOD THEN 101 ELSE c.close],
      rsi |-> r] : c \in LastCandles, r \in RsiValues}

\* df['price'].iloc[-1] of the frame execute_trading_cycle fetches.
CyclePrices == {99, 100, 101}

\* self.position_data after "Get PAXG position": pos is the position found
\* or None; position_value is set when all_mids has the coin.
PositionAfter(pd, pos, mids) ==
    IF pos = None THEN NoPosition
    ELSE [size |-> pos.szi,
          unrealized_pnl |-> pos.pnl,
          position_value |-> IF mids = "ok" THEN pos.value
                                            ELSE pd.position_value]

\* update_data.  user_state or all_mids may raise: the handler is "pass",
\* what was assigned before stays and the rest is skipped.  In the automatic
\* update of run, execute_trading_cycle follows when the bot is running.
UpdateData ==
    /\ mode = "trading" /\ panel_pc = "loop"
    /\ updates < MaxUpdates
    /\ updates' = updates + 1
    /\ cycle_orders' = <<>>
    /\ \E auto \in BOOLEAN :
         panel_pc' = IF auto /\ bot_running THEN "cycle" ELSE "loop"
    /\ \/ \* user_state raises
          UNCHANGED <<position_data, candles, lows, rsi_value, last_rsi_values,
                      rsi_topped, support_level>>
       \/ \* a position is found and all_mids raises
          /\ \E pos \in ExPositions :
                position_data' = PositionAfter(position_data, pos, "raises")
          /\ UNCHANGED <<candles, lows, rsi_value, last_rsi_values,
                         rsi_topped, support_level>>
       \/ /\ \E pos \in ExPositions \cup {None}, mids \in {"ok", "missing"} :
                position_data' = PositionAfter(position_data, pos, mids)
          /\ \/ \* get_recent_candles returns None
                UNCHANGED <<candles, lows, rsi_value, last_rsi_values,
                            rsi_topped, support_level>>
             \/ \E df \in TradingFrames :
                   LET values == NextLastRsiValues(last_rsi_values, df.rsi)
                   IN  /\ Len(df.price) >= rsi_period + 1
                       /\ candles' = df.price
                       /\ lows' = df.low
                       /\ rsi_value' = df.rsi
                       /\ last_rsi_values' = values
                       /\ rsi_topped' = NextRsiTopped(rsi_topped, values)
                       /\ support_level' = NextSupportLevel(support_level, df.low)
    /\ UNCHANGED <<mode, rsi_period, live_signal, bot_running, last_buy_time,
                   now>>
    /\ UNCHANGED <<backtestVars, optVars, testerVars>>

\* get_position_pnl_pct() >= take_profit_pct and <= stop_loss_pct.
get_position_pnl_pct(pd) ==
    IF pd.position_value = 0 THEN Zero
    ELSE Rat(pd.unrealized_pnl, pd.position_value)
TakeProfitHit(pd) ==
    get_position_pnl_pct(pd).num * 1000 >= BOT_TAKE_PROFIT * get_position_pnl_pct(pd).den
StopLossHit(pd) ==
    get_position_pnl_pct(pd).num * 1000 <= BOT_STOP_LOSS * get_position_pnl_pct(pd).den

\* Mutant: the cover signal is looked at before the two brackets.
CloseReason_CoverFirst(pd, values, current_rsi) ==
    IF check_cover_signal(values, current_rsi) THEN "cover"
    ELSE IF TakeProfitHit(pd) THEN "take_profit"
    ELSE IF StopLossHit(pd) THEN "stop_loss"
    ELSE "none"

\* The branch of "if has_position" that is taken: the reason of the close
\* order, or "none".
CloseReason(pd, values, current_rsi) ==
    IF TakeProfitHit(pd) THEN "take_profit"
    ELSE IF StopLossHit(pd) THEN "stop_loss"
    ELSE IF check_cover_signal(values, current_rsi) THEN "cover"
    ELSE "none"

\* Mutant: the cooldown is never in force.
is_in_cooldown_Never(last, t) == FALSE

\* is_in_cooldown at the time t.
is_in_cooldown(last, t) ==
    IF last = None THEN FALSE
    ELSE BOT_BUY_COOLDOWN_MINUTES - (t - last.value) > 0

can_open_new_position(pd) ==
    pd.position_value + BOT_POSITION_VALUE_USD <= BOT_MAX_TOTAL_POSITION_USD

\* The ways close_position ends: no position or a zero size on the
\* exchange, an exception, an order the exchange rejects, an order that is
\* ok; and the ways create_short_market_order ends.
CloseOutcomes == {"No position", "Zero size", "exception", "rejected", "ok"}
ShortOutcomes == {"No market price", "No szDecimals", "exception", "rejected", "ok"}

\* The dictionary close_position and create_short_market_order return.
OrderResult(outcome) ==
    IF outcome = "ok" THEN [status |-> "ok"]
    ELSE [status |-> "error", error |-> outcome]

\* Mutant: close_position resets the flag whatever the exchange answers.
ToppedAfterClose_Always(topped, outcome) == FALSE

\* self.rsi_topped after close_position.
ToppedAfterClose(topped, outcome) == IF outcome = "ok" THEN FALSE ELSE topped

\* self.last_buy_time after create_short_market_order at the time t.
LastBuyAfterOrder(last, outcome, t) == IF outcome = "ok" THEN Float(t) ELSE last

\* execute_trading_cycle, with the close_position or the
\* create_short_market_order it calls.
TradingCycle ==
    /\ mode = "trading" /\ panel_pc = "cycle"
    /\ panel_pc' = "loop"
    /\ \/ \* no RSI value, or get_recent_candles returns None
          /\ cycle_orders' = <<>>
          /\ UNCHANGED <<rsi_topped, last_buy_time>>
       \/ /\ rsi_value # None
          /\ \E current_price \in CyclePrices :
               IF Abs(position_data.size) > 0
               THEN LET reason == CloseReason(position_data, last_rsi_values,
                                              rsi_value)
                    IN  IF reason = "none"
                        THEN /\ cycle_orders' = <<>>
                             /\ UNCHANGED <<rsi_topped, last_buy_time>>
                        ELSE \E outcome \in CloseOutcomes :
                               /\ cycle_orders' =
                                    <<[kind |-> "close", reason |-> reason,
                                       result |-> OrderResult(outcome)]>>
                               /\ rsi_topped' = ToppedAfterClose(rsi_topped, outcome)
                               /\ UNCHANGED last_buy_time
               ELSE IF /\ check_short_signal(rsi_topped, support_level,
                                             last_rsi_values, rsi_value,
                                             current_price)
                       /\ ~is_in_cooldown(last_buy_time, now)
                       /\ can_open_new_position(position_data)
                    THEN \E outcome \in ShortOutcomes :
                           /\ cycle_orders' =
                                <<[kind |-> "short", price |-> current_price,
                                   result |-> OrderResult(outcome)]>>
                           /\ last_buy_time' =
                                LastBuyAfterOrder(last_buy_time, outcome, now)
                           /\ UNCHANGED rsi_topped
                    ELSE /\ cycle_orders' = <<>>
                         /\ UNCHANGED <<rsi_topped, last_buy_time>>
    /\ UNCHANGED <<mode, candles, lows, rsi_period, last_rsi_values,
                   support_level, rsi_value, live_signal, bot_running,
                   position_data, now, updates>>
    /\ UNCHANGED <<backtestVars, optVars, testerVars>>

\* The keys s and x.
StartBot ==
    /\ mode = "trading" /\ panel_pc = "loop"
    /\ ~bot_running
    /\ bot_running' = TRUE
    /\ UNCHANGED <<mode, candles, lows, rsi_period, last_rsi_values, rsi_topped,
                   support_level, rsi_value, live_signal, position_data,
                   last_buy_time, now, panel_pc, cycle_orders, updates>>
    /\ UNCHANGED <<backtestVars, optVars, testerVars>>
StopBot ==
    /\ mode = "trading" /\ panel_pc = "loop"
    /\ bot_running
    /\ bot_running' = FALSE
    /\ UNCHANGED <<mode, candles, lows, rsi_period, last_rsi_values, rsi_topped,
                   support_level, rsi_value, live_signal, position_data,
                   last_buy_time, now, panel_pc, cycle_orders, updates>>
    /\ UNCHANGED <<backtestVars, optVars, testerVars>>

\* Time passes between two turns of the loop of run.
Tick ==
    /\ mode = "trading" /\ panel_pc = "loop"
    /\ now + TickMinutes <= MaxTime
    /\ now' = now + TickMinutes
    /\ UNCHANGED <<mode, candles, lows, rsi_period, last_rsi_values, rsi_topped,
                   support_level, rsi_value, live_signal, bot_running,
                   position_data, last_buy_time, panel_pc, cycle_orders, updates>>
    /\ UNCHANGED <<backtestVars, optVars, testerVars>>

InitTrading ==
    /\ mode = "trading"
    /\ IdleBacktest
    /\ IdleOptimize
    /\ IdleTester
    /\ candles = <<>> /\ lows = <<>> /\ rsi_period = BOT_RSI_PERIOD
    /\ last_rsi_values = <<>> /\ rsi_topped = FALSE
    /\ support_level = None /\ rsi_value = None /\ live_signal = 0
    /\ bot_running = FALSE /\ position_data = NoPosition
    /\ last_buy_time = None /\ now = 0 /\ panel_pc = "loop"
    /\ cycle_orders = <<>> /\ updates = 0

NextTrading == UpdateData \/ TradingCycle \/ StartBot \/ StopBot \/ Tick

SpecTrading == InitTrading /\ [][NextTrading]_vars

-----------------------------------------------------------------------------
(* PanelBacktester.run_backtest and fetch_binance_data                     *)

MaxRuns == 3                    \* most calls of run_backtest on one backtester

\* The frames fetch_binance_data can build from a response with rows: the
\* number of rows, and whether the timestamp of the first row is a number
\* or null (pd.to_datetime turns null into NaT).
DataFrames == [rows : {1, 2}, first_timestamp : {"valid", "NaT"}]

\* The ways fetch_binance_data returns None, by the status it leaves.
FetchErrors == {"Error: HTTP", "Error: No data received", "Error: exception"}

\* The dictionaries run_backtest returns.
Failure(error) == [success |-> FALSE, error |-> error]
Success(metrics, trades, df) ==
    [success |-> TRUE, metrics |-> metrics, trades |-> trades,
     data_points |-> df.rows]

\* run_backtest is called: status and progress are reset.
RunBacktest ==
    /\ mode = "tester" /\ tester_pc \in {"idle", "returned"}
    /\ tester_calls < MaxRuns
    /\ tester' = [tester EXCEPT !.status = "Starting backtest...", !.progress = 0]
    /\ tester_old' = [results |-> tester.results, trades_df |-> tester.trades_df]
    /\ tester_calls' = tester_calls + 1
    /\ tester_df' = None
    /\ tester_ret' = None
    /\ tester_pc' = "fetch"
    /\ UNCHANGED <<mode, backtestVars, optVars>>
    /\ UNCHANGED <<candles, lows, rsi_period, last_rsi_values, rsi_topped,
                   support_level, rsi_value, live_signal, tradingVars>>

\* fetch_binance_data returns None (a bad HTTP status, an empty response or
\* an exception it catches), and run_backtest returns the failure.
FetchFails ==
    /\ mode = "tester" /\ tester_pc = "fetch"
    /\ \E err \in FetchErrors :
         /\ tester' = [tester EXCEPT !.status = err, !.progress = 10]
         /\ tester_ret' = Failure(err)
    /\ tester_pc' = "returned"
    /\ UNCHANGED <<tester_df, tester_old, tester_calls>>
    /\ UNCHANGED <<mode, backtestVars, optVars>>
    /\ UNCHANGED <<candles, lows, rsi_period, last_rsi_values, rsi_topped,
                   support_level, rsi_value, live_signal, tradingVars>>

\* fetch_binance_data returns a frame.
FetchReturns ==
    /\ mode = "tester" /\ tester_pc = "fetch"
    /\ tester_df' \in DataFrames
    /\ tester' = [tester EXCEPT !.status = "Loaded", !.progress = 30]
    /\ tester_pc' = "run"
    /\ UNCHANGED <<tester_ret, tester_old, tester_calls>>
    /\ UNCHANGED <<mode, backtestVars, optVars>>
    /\ UNCHANGED <<candles, lows, rsi_period, last_rsi_values, rsi_topped,
                   support_level, rsi_value, live_signal, tradingVars>>

\* The handler "except Exception as e" of run_backtest.
Handler(t, error) ==
    /\ tester' = [t EXCEPT !.status = error, !.progress = 0]
    /\ tester_ret' = Failure(error)

\* The construction of the algorithm or of the engine, or engine.backtest,
\* raises.
BacktestRaises ==
    /\ mode = "tester" /\ tester_pc = "run"
    /\ Handler(tester, "Error: exception")
    /\ tester_pc' = "returned"
    /\ UNCHANGED <<tester_df, tester_old, tester_calls>>
    /\ UNCHANGED <<mode, backtestVars, optVars>>
    /\ UNCHANGED <<candles, lows, rsi_period, last_rsi_values, rsi_topped,
                   support_level, rsi_value, live_signal, tradingVars>>

\* engine.backtest returns: the results are stored, then the dictionary to
\* return is built.  df.index[0].strftime raises for NaT.  The metrics and
\* the trades of a run are named by its data and its call.
BacktestReturns ==
    /\ mode = "tester" /\ tester_pc = "run"
    /\ LET metrics == [metrics_of |-> tester_df, call |-> tester_calls]
           trades_df == [trades_of |-> tester_df, call |-> tester_calls]
           stored == [results |-> metrics, trades_df |-> trades_df,
                      status |-> "Backtest complete!", progress |-> 100]
       IN  IF tester_df.first_timestamp = "NaT"
           THEN Handler(stored, "Error: exception")
           ELSE /\ tester' = stored
                /\ tester_ret' = Success(metrics, trades_df, tester_df)
    /\ tester_pc' = "returned"
    /\ UNCHANGED <<tester_df, tester_old, tester_calls>>
    /\ UNCHANGED <<mode, backtestVars, optVars>>
    /\ UNCHANGED <<candles, lows, rsi_period, last_rsi_values, rsi_topped,
                   support_level, rsi_value, live_signal, tradingVars>>

InitTester ==
    /\ mode = "tester"
    /\ IdleBacktest
    /\ IdleOptimize
    /\ IdleLive

NextTester ==
    RunBacktest \/ FetchFails \/ FetchReturns \/ BacktestRaises \/ BacktestReturns

SpecTester == InitTester /\ [][NextTester]_vars

-----------------------------------------------------------------------------
(* Properties of PanelBacktester.run_backtest *)

\* C39 (as claimed): run_backtest always returns a dictionary; when it
\* returns a failure the stored results and trades_df are those of before
\* the call; results and trades_df are replaced, the status is complete and
\* the progress 100 only when it returns success.
C39_FailureKeepsResults ==
    (mode = "tester" /\ tester_pc = "returned") =>
        /\ tester_ret # None
        /\ ~tester_ret.success =>
              /\ "error" \in DOMAIN tester_ret
              /\ tester.results = tester_old.results
              /\ tester.trades_df = tester_old.trades_df
        /\ (\/ tester.results # tester_old.results
            \/ tester.trades_df # tester_old.trades_df
            \/ tester.status = "Backtest complete!"
            \/ tester.progress = 100) => tester_ret.success

\* The same for the frames whose timestamps are all numbers.
FailureKeepsResultsValid ==
    (tester_df # None /\ tester_df.first_timestamp = "valid") =>
        C39_FailureKeepsResults

-----------------------------------------------------------------------------
(* Properties of the trading loop of PAXGPanel.run *)

\* The low and the close of the last candle update_data fetched.
CurrentLow == lows[Len(lows)]
CurrentClose == candles[Len(candles)]

\* C34: once update_rsi_state has seen a frame of at least 10 candles,
\* support_level is the least low of the last 10 candles, the current one
\* included, so it is at most the current candle's low, and check_short_signal
\* is false for every price at or above that low, the candle's own close
\* among them; the batch generator's support level at the same sample is the
\* least price of the 10 samples before it.
C34_SupportIncludesCurrent ==
    (mode = "trading" /\ Len(lows) >= 10) =>
        /\ support_level =
             Float(MinOf({lows[j] : j \in (Len(lows) - 9)..Len(lows)}))
        /\ support_level.value <= CurrentLow
        /\ CurrentLow <= CurrentClose
        /\ \A p \in CyclePrices \cup {CurrentClose} :
             p >= CurrentLow =>
                 ~check_short_signal(rsi_topped, support_level, last_rsi_values,
                                     rsi_value, p)
        /\ batch_support_level(candles, Len(candles) - 1) =
             Float(MinOf({candles[j] : j \in (Len(candles) - 10)..(Len(candles) - 1)}))

\* The current candle makes the low of the window, the RSI has topped and
\* crossed below 50: only a price under the candle's low gives the signal,
\* and the batch level, which leaves the candle out, is higher.
C34_Witness ==
    /\ mode = "trading" /\ Len(lows) >= 10
    /\ CurrentLow = 100 /\ CurrentClose = 101
    /\ support_level = Float(100)
    /\ batch_support_level(candles, Len(candles) - 1) = Float(101)
    /\ check_short_signal(rsi_topped, support_level, last_rsi_values, rsi_value, 99)
    /\ ~check_short_signal(rsi_topped, support_level, last_rsi_values, rsi_value, 100)

\* execute_trading_cycle has just run and called create_short_market_order,
\* or close_position.
CycleRan == mode = "trading" /\ panel_pc = "cycle" /\ panel_pc' = "loop"
ShortSubmitted == CycleRan /\ cycle_orders' # <<>> /\ cycle_orders'[1].kind = "short"
CloseAttempted == CycleRan /\ cycle_orders' # <<>> /\ cycle_orders'[1].kind = "close"

\* The cooldown since the last order that was ok has elapsed.
CooldownElapsed ==
    last_buy_time = None \/ now - last_buy_time.value >= BOT_BUY_COOLDOWN_MINUTES

\* C36: a trading cycle submits a short market order only if the bot is
\* running, an RSI value is known, the known position size is zero,
\* check_short_signal is true at the cycle's price, the cooldown has elapsed
\* and position_value + position_value_usd <= max_total_position_usd;
\* last_buy_time changes only when the exchange reports the order as ok, to
\* the time of the order; with a position open no short is submitted.
C36_ShortOnlyWhenAllowed ==
    [][/\ ShortSubmitted =>
            /\ bot_running
            /\ rsi_value # None
            /\ position_data.size = 0
            /\ check_short_signal(rsi_topped, support_level, last_rsi_values,
                                  rsi_value, cycle_orders'[1].price)
            /\ CooldownElapsed
            /\ position_data.position_value + BOT_POSITION_VALUE_USD
                   <= BOT_MAX_TOTAL_POSITION_USD
            /\ Len(cycle_orders') = 1
       /\ last_buy_time' # last_buy_time =>
            /\ ShortSubmitted
            /\ cycle_orders'[1].result.status = "ok"
            /\ last_buy_time' = Float(now)
       /\ (ShortSubmitted /\ cycle_orders'[1].result.status # "ok") =>
            last_buy_time' = last_buy_time
       /\ Abs(position_data.size) > 0 => ~ShortSubmitted]_vars

\* A second short went through once the cooldown after the first had run
\* out.
C36_Witness ==
    /\ mode = "trading" /\ panel_pc = "loop"
    /\ cycle_orders # <<>> /\ cycle_orders[1].kind = "short"
    /\ cycle_orders[1].result.status = "ok"
    /\ now = BOT_BUY_COOLDOWN_MINUTES
    /\ last_buy_time = Float(now)

\* The profit of the known position as a fraction of its value is at least
\* take_profit_pct, or at most stop_loss_pct; the fraction is 0 when the
\* value is 0.
AtTakeProfit ==
    IF position_data.position_value = 0 THEN 0 >= BOT_TAKE_PROFIT
    ELSE position_data.unrealized_pnl * 1000
             >= BOT_TAKE_PROFIT * position_data.position_value
AtStopLoss ==
    IF position_data.position_value = 0 THEN 0 <= BOT_STOP_LOSS
    ELSE position_data.unrealized_pnl * 1000
             <= BOT_STOP_LOSS * position_data.position_value

\* C37: a trading cycle with an open position attempts at most one close
\* order and no short; the reason of the close is take-profit when the profit
\* fraction is at least take_profit_pct, else stop-loss when it is at most
\* stop_loss_pct, else the cover signal, which counts only when neither
\* bracket holds; with none of the three nothing is attempted.
C37_OneCloseByPriority ==
    [][(CycleRan /\ Abs(position_data.size) > 0) =>
          /\ Len(cycle_orders') <= 1
          /\ cycle_orders' # <<>> =>
               /\ CloseAttempted
               /\ rsi_value # None
               /\ cycle_orders'[1].reason \in {"take_profit", "stop_loss", "cover"}
               /\ cycle_orders'[1].reason = "take_profit" <=> AtTakeProfit
               /\ cycle_orders'[1].reason = "stop_loss" <=>
                      (~AtTakeProfit /\ AtStopLoss)
               /\ cycle_orders'[1].reason = "cover" =>
                      /\ ~AtTakeProfit /\ ~AtStopLoss
                      /\ check_cover_signal(last_rsi_values, rsi_value)
          /\ (/\ ~AtTakeProfit /\ ~AtStopLoss
              /\ \/ rsi_value = None
                 \/ ~check_cover_signal(last_rsi_values, rsi_value)) =>
               cycle_orders' = <<>>]_vars

\* The position was closed for take-profit in a cycle where the cover signal
\* was true as well.
C37_Witness ==
    /\ mode = "trading" /\ panel_pc = "loop"
    /\ cycle_orders # <<>> /\ cycle_orders[1].kind = "close"
    /\ cycle_orders[1].reason = "take_profit"
    /\ Abs(position_data.size) > 0
    /\ check_cover_signal(last_rsi_values, rsi_value)

\* C38: close_position sets rsi_topped to false exactly when the exchange
\* reports the close order as ok, whatever the reason of the close; when
\* there is no position, the size is zero, the order is rejected or an
\* exception is raised, rsi_topped, last_rsi_values and support_level stay as
\* they were and the call returns a dictionary with status error.
C38_ResetOnlyOnOk ==
    [][CloseAttempted =>
          LET result == cycle_orders'[1].result
          IN  /\ result.status \in {"ok", "error"}
              /\ result.status = "ok" => rsi_topped' = FALSE
              /\ rsi_topped => (rsi_topped' = FALSE <=> result.status = "ok")
              /\ result.status # "ok" =>
                   /\ result.error \in
                        {"No position", "Zero size", "rejected", "exception"}
                   /\ rsi_topped' = rsi_topped
                   /\ last_rsi_values' = last_rsi_values
                   /\ support_level' = support_level]_vars

\* A close order was ok and took the flag down although the RSI window still
\* holds an overbought value.
C38_Witness ==
    /\ mode = "trading" /\ panel_pc = "loop"
    /\ cycle_orders # <<>> /\ cycle_orders[1].kind = "close"
    /\ cycle_orders[1].result.status = "ok"
    /\ ~rsi_topped
    /\ Len(last_rsi_values) >= 3
    /\ RsiGe(PyMax(last_rsi_values), BOT_RSI_OVERBOUGHT)

====
